---- MODULE Spec2Model ----
(***************************************************************************)
(* A model of the analysis core of mutest-rs: reachable_fns, the mutation   *)
(* collector, the mutation conflict graph and the batching of mutations    *)
(* into mutants (mutest-emit/src/codegen/mutation.rs).                      *)
(***************************************************************************)
EXTENDS Integers, Sequences, FiniteSets, TLC

(***************************************************************************)
(* Bounds of the model.                                                    *)
(***************************************************************************)
\* Longest mutation list handed to the conflict graph and the batching.
MaxMuts == 3
\* Largest mutant_max_mutations_count tried (the option is a usize: 0 is a value).
MaxCap == 2
\* Largest max_iterations given to optimize_batches_simulated_annealing.
MaxIterations == 2

(***************************************************************************)
(* Unsafety, UnsafeSource, UnsafeTargeting.                                *)
(***************************************************************************)
\* enum UnsafeSource { EnclosingUnsafe, Unsafe }, ordered by derive(Ord).
UnsafeSource == {"EnclosingUnsafe", "Unsafe"}

SourceIdx(s) == IF s = "EnclosingUnsafe" THEN 0 ELSE 1

\* Option<UnsafeSource>: None < Some(EnclosingUnsafe) < Some(Unsafe).
NoSource == "NoSource"

OptSource == {NoSource} \cup UnsafeSource

OptSourceIdx(o) == IF o = NoSource THEN 0 ELSE 1 + SourceIdx(o)

\* Ord::max on Option<UnsafeSource>.
OptSourceMax(a, b) == IF OptSourceIdx(a) <= OptSourceIdx(b) THEN b ELSE a

\* Option::or : the receiver if it is Some, else the argument.
OptSourceOr(a, b) == IF a # NoSource THEN a ELSE b

\* enum Unsafety { None, Tainted(UnsafeSource), Unsafe(UnsafeSource) }.
UNone == [kind |-> "None", source |-> "-"]

Tainted(s) == [kind |-> "Tainted", source |-> s]

UnsafeOf(s) == [kind |-> "Unsafe", source |-> s]

Unsafety == {UNone} \cup {Tainted(s) : s \in UnsafeSource} \cup {UnsafeOf(s) : s \in UnsafeSource}

\* derive(PartialOrd, Ord): variants in declaration order, then the payload.
UnsafetyIdx(u) ==
    IF u.kind = "None" THEN 0
    ELSE IF u.kind = "Tainted" THEN 1 + SourceIdx(u.source)
    ELSE 3 + SourceIdx(u.source)

UnsafetyLe(a, b) == UnsafetyIdx(a) <= UnsafetyIdx(b)

\* Ord::max(a, b).
UnsafetyMax(a, b) == IF UnsafetyLe(a, b) THEN b ELSE a

\* Unsafety::any.
UnsafetyAny(u) == u.kind # "None"

\* enum UnsafeTargeting { None, OnlyEnclosing(hir::Unsafety), All }.
UnsafeTargeting == {"None", "OnlyEnclosingUnsafe", "OnlyEnclosingNormal", "All"}

TargetingAny(p) == p # "None"

InsideUnsafe(p) == p = "All"

EnclosingUnsafe(p) == p \in {"All", "OnlyEnclosingUnsafe", "OnlyEnclosingNormal"}

\* A mutant of Unsafety::is_unsafe: the first arm (unsafe source Unsafe, any policy) dropped.
UnsafetyIsUnsafeNoFirstArm(u, p) ==
    \/ p = "None" /\ u.kind \in {"Unsafe", "Tainted"}
    \/ p = "OnlyEnclosingUnsafe" /\ u.kind \in {"Unsafe", "Tainted"} /\ u.source = "EnclosingUnsafe"

\* Unsafety::is_unsafe(unsafe_targeting).
UnsafetyIsUnsafe(u, p) ==
    \/ u.kind \in {"Unsafe", "Tainted"} /\ u.source = "Unsafe"
    \/ p = "None" /\ u.kind \in {"Unsafe", "Tainted"}
    \/ p = "OnlyEnclosingUnsafe" /\ u.kind \in {"Unsafe", "Tainted"} /\ u.source = "EnclosingUnsafe"

(***************************************************************************)
(* Targets, substitutions and mutations.                                   *)
(***************************************************************************)
Tests == {"t1", "t2", "t3"}

\* struct EntryPointAssociation.
EntryPoint(d, u) == [distance |-> d, unsafe_call_path |-> u]

\* struct Target.
MkTarget(def, unsafety, reach, dist) ==
    [def_id |-> def, unsafety |-> unsafety, reachable_from |-> reach, distance |-> dist]

\* enum SubstLoc, as (kind, anchor node id).
SubstLocKinds == {"InsertBefore", "InsertAfter", "Replace"}

SubstLoc(k, n) == [kind |-> k, node |-> n]

\* struct SubstDef: only the location takes part in the analysis.
SubstDef(k, n) == [location |-> SubstLoc(k, n)]

\* struct Mut (the boxed mutation payload is display data only).
MkMut(id, target, inUnsafe, substs) ==
    [id |-> id, target |-> target, is_in_unsafe_block |-> inUnsafe, substs |-> substs]

\* A mutant of Mut::is_unsafe: the target's own classification ignored.
MutIsUnsafeBlockOnly(m, p) == m.is_in_unsafe_block

\* Mut::is_unsafe.
MutIsUnsafe(m, p) == m.is_in_unsafe_block \/ UnsafetyIsUnsafe(m.target.unsafety, p)

\* A mutant of conflicting_targets: no two targets conflict.
ConflictingTargetsNever(a, b) == FALSE

\* conflicting_targets: the sets of reaching tests are not disjoint.
ConflictingTargets(a, b) ==
    (DOMAIN a.reachable_from) \cap (DOMAIN b.reachable_from) # {}

\* codegen::substitution::conflicting_substs: the same anchor node, whatever the kind.
ConflictingSubsts(s, o) == s.location.node = o.location.node

\* A mutant of the pair test of generate_mutation_conflict_graph: `other` never tested for unsafety.
IsConflictingNoOther(m, o, p) ==
    \/ MutIsUnsafe(m, p)
    \/ ConflictingTargets(m.target, o.target)
    \/ \E i \in 1..Len(m.substs) : \E j \in 1..Len(o.substs) :
          ConflictingSubsts(m.substs[i], o.substs[j])

\* A mutant of the pair test: the shared-entry-point rule dropped.
IsConflictingNoTargets(m, o, p) ==
    \/ MutIsUnsafe(m, p)
    \/ MutIsUnsafe(o, p)
    \/ \E i \in 1..Len(m.substs) : \E j \in 1..Len(o.substs) :
          ConflictingSubsts(m.substs[i], o.substs[j])

\* is_conflicting of generate_mutation_conflict_graph, for `mutation` and a later `other`.
IsConflicting(m, o, p) ==
    \/ MutIsUnsafe(m, p)
    \/ MutIsUnsafe(o, p)
    \/ ConflictingTargets(m.target, o.target)
    \/ \E i \in 1..Len(m.substs) : \E j \in 1..Len(o.substs) :
          ConflictingSubsts(m.substs[i], o.substs[j])

SeqMax(S) == IF S = {} THEN 0 ELSE CHOOSE x \in S : \A y \in S : y <= x

\* A mutant of the unsafe marking: the mutation is marked inside the loop over the mutations
\* after it, so the last mutation of the list is never marked.
GraphUnsafesInInnerLoop(muts, p) ==
    {muts[i].id : i \in {k \in 1..Len(muts) : k < Len(muts) /\ MutIsUnsafe(muts[k], p)}}

\* unsafes of generate_mutation_conflict_graph: every mutation that is_unsafe under the policy.
GraphUnsafes(muts, p) ==
    {muts[i].id : i \in {k \in 1..Len(muts) : MutIsUnsafe(muts[k], p)}}

\* conflicts of generate_mutation_conflict_graph: each mutation against the mutations after
\* it in the list; a conflicting pair is stored once, as (earlier id, later id).
GraphConflicts(muts, p) ==
    { <<muts[q[1]].id, muts[q[2]].id>> :
        q \in { r \in (1..Len(muts)) \X (1..Len(muts)) :
                  r[1] < r[2] /\ IsConflicting(muts[r[1]], muts[r[2]], p) } }

\* generate_mutation_conflict_graph.
GenerateMutationConflictGraph(muts, p) ==
    [ n_mutations |-> SeqMax({muts[i].id : i \in 1..Len(muts)}),
      unsafes |-> GraphUnsafes(muts, p),
      conflicts |-> GraphConflicts(muts, p) ]

\* MutationConflictGraph::is_unsafe.
GraphIsUnsafe(g, v) == v \in g.unsafes

\* A mutant of conflicting_mutations: only the pair as stored is looked up.
ConflictingMutationsOneWay(g, a, b) == <<a, b>> \in g.conflicts

\* MutationConflictGraph::conflicting_mutations.
ConflictingMutations(g, a, b) == <<a, b>> \in g.conflicts \/ <<b, a>> \in g.conflicts

\* MutationConflictGraph::compatible_mutations.
CompatibleMutations(g, a, b) == ~ConflictingMutations(g, a, b)

(***************************************************************************)
(* Mutants and the batching algorithms.                                    *)
(***************************************************************************)
\* struct Mutant.
Mutant(id, muts) == [id |-> id, mutations |-> muts]

RemoveAt(s, k) == [i \in 1..(Len(s) - 1) |-> IF i < k THEN s[i] ELSE s[i + 1]]

SetMin(S) == CHOOSE x \in S : \A y \in S : x <= y

\* A mutant of compatible_mutant: the conflict test dropped.
CompatibleMutantNoConflictTest(mutation, mutant, g, cap) ==
    Len(mutant.mutations) < cap

\* A mutant of compatible_mutant: the capacity test dropped.
CompatibleMutantNoCapTest(mutation, mutant, g, cap) ==
    ~\E i \in 1..Len(mutant.mutations) : ConflictingMutations(g, mutant.mutations[i].id, mutation.id)

\* compatible_mutant.
CompatibleMutant(mutation, mutant, g, cap) ==
    /\ ~(Len(mutant.mutations) >= cap)
    /\ ~\E i \in 1..Len(mutant.mutations) : ConflictingMutations(g, mutant.mutations[i].id, mutation.id)

\* The indices of the mutants compatible_mutant accepts for `mutation`.
CompatibleIdx(mutation, ms, g, cap) ==
    {i \in 1..Len(ms) : CompatibleMutant(mutation, ms[i], g, cap)}

\* A mutant of choose_random_mutant: None may be returned although a mutant is compatible.
ChooseRandomMutantOrNone(mutation, ms, g, cap) ==
    {0} \cup (IF GraphIsUnsafe(g, mutation.id) THEN {} ELSE CompatibleIdx(mutation, ms, g, cap))

\* choose_random_mutant: the indices it may return; 0 stands for None.
ChooseRandomMutant(mutation, ms, g, cap) ==
    IF ms = <<>> THEN {0}
    ELSE IF GraphIsUnsafe(g, mutation.id) THEN {0}
    ELSE IF CompatibleIdx(mutation, ms, g, cap) = {} THEN {0}
    ELSE CompatibleIdx(mutation, ms, g, cap)

\* A mutant of the greedy choice: the last mutant the mutation is compatible with.
LastCompatibleMutant(mutation, ms, g, cap) ==
    IF CompatibleIdx(mutation, ms, g, cap) = {} THEN 0
    ELSE CHOOSE i \in CompatibleIdx(mutation, ms, g, cap) :
            \A j \in CompatibleIdx(mutation, ms, g, cap) : j <= i

\* The greedy choice: the first mutant the mutation is compatible with; 0 stands for None.
FirstCompatibleMutant(mutation, ms, g, cap) ==
    IF CompatibleIdx(mutation, ms, g, cap) = {} THEN 0
    ELSE SetMin(CompatibleIdx(mutation, ms, g, cap))

\* mutant_candidate of batch_mutations_greedy: the indices it may evaluate to. With an epsilon,
\* rng.gen_bool(epsilon) decides between the random and the greedy choice.
GreedyCandidates(mutation, ms, g, cap, eps) ==
    IF GraphIsUnsafe(g, mutation.id) THEN {0}
    ELSE (IF eps THEN ChooseRandomMutant(mutation, ms, g, cap) ELSE {})
         \cup {FirstCompatibleMutant(mutation, ms, g, cap)}

\* match mutant_candidate: push into the chosen mutant, or open a new one.
Place(mutation, ms, idx, nextIndex) ==
    IF idx = 0 THEN Append(ms, Mutant(nextIndex, <<mutation>>))
    ELSE [ms EXCEPT ![idx].mutations = Append(@, mutation)]

\* batch_mutations_dummy: one mutant per mutation.
BatchMutationsDummy(muts) == [i \in 1..Len(muts) |-> Mutant(i, <<muts[i]>>)]

\* The number of other mutations of the list each mutation conflicts with.
ConflictHeuristic(muts, g, i) ==
    Cardinality({j \in 1..Len(muts) :
                    muts[j].id # muts[i].id /\ ConflictingMutations(g, muts[i].id, muts[j].id)})

\* The positions of muts in the order of a stable ascending sort by conflict count.
RECURSIVE SortedPositions(_, _, _)
SortedPositions(muts, g, left) ==
    IF left = {} THEN <<>>
    ELSE LET least == CHOOSE i \in left : \A j \in left :
                          \/ ConflictHeuristic(muts, g, i) < ConflictHeuristic(muts, g, j)
                          \/ ConflictHeuristic(muts, g, i) = ConflictHeuristic(muts, g, j) /\ i <= j
         IN <<least>> \o SortedPositions(muts, g, left \ {least})

Reverse(s) == [i \in 1..Len(s) |-> s[Len(s) + 1 - i]]

Permutations1(n) == {f \in [1..n -> 1..n] : \A i, j \in 1..n : f[i] = f[j] => i = j}

GreedyOrderings == {"NoOrdering", "ConflictsAsc", "ConflictsDesc", "Random"}

\* The ordering step of batch_mutations_greedy: the orders the list may be processed in.
OrderMutations(muts, g, ordering) ==
    LET asc == [k \in 1..Len(muts) |-> muts[SortedPositions(muts, g, 1..Len(muts))[k]]]
    IN CASE ordering = "ConflictsAsc" -> {asc}
         [] ordering = "ConflictsDesc" -> {Reverse(asc)}
         [] ordering = "Random" -> {[k \in 1..Len(muts) |-> muts[f[k]]] : f \in Permutations1(Len(muts))}
         [] OTHER -> {muts}

(***************************************************************************)
(* optimize_batches_simulated_annealing.                                   *)
(***************************************************************************)
\* StateChange::MoveMutation.
MoveMutation(mutationId, oldId, newId) ==
    [mutation_id |-> mutationId, old_mutant_id |-> oldId, new_mutant_id |-> newId]

\* Iterator::position / find: the first index whose mutant has the id.
MutantPosition(ms, id) == SetMin({i \in 1..Len(ms) : ms[i].id = id})

MutationPosition(muts, id) == SetMin({i \in 1..Len(muts) : muts[i].id = id})

\* A mutant of StateChange::apply: the mutation is pushed into the new mutant and left in the old one.
ApplyNoExtract(ms, change) ==
    LET newIdx == MutantPosition(ms, change.new_mutant_id)
        oldIdx == MutantPosition(ms, change.old_mutant_id)
        old == ms[oldIdx]
    IN [ms EXCEPT ![newIdx].mutations =
            Append(@, old.mutations[MutationPosition(old.mutations, change.mutation_id)])]

\* A mutant of StateChange::apply: an old mutant left empty stays in the list.
ApplyKeepsEmptied(ms, change) ==
    LET oldIdx == MutantPosition(ms, change.old_mutant_id)
        old == ms[oldIdx]
        k == MutationPosition(old.mutations, change.mutation_id)
        ms1 == [ms EXCEPT ![oldIdx].mutations = RemoveAt(old.mutations, k)]
    IN [ms1 EXCEPT ![MutantPosition(ms1, change.new_mutant_id)].mutations =
            Append(@, old.mutations[k])]

\* StateChange::apply: take the mutation out of the old mutant, drop the old mutant if it is
\* left empty, push the mutation into the new mutant.
Apply(ms, change) ==
    LET oldIdx == MutantPosition(ms, change.old_mutant_id)
        old == ms[oldIdx]
        k == MutationPosition(old.mutations, change.mutation_id)
        mutation == old.mutations[k]
        rest == RemoveAt(old.mutations, k)
        ms1 == IF rest = <<>> THEN RemoveAt(ms, oldIdx)
               ELSE [ms EXCEPT ![oldIdx].mutations = rest]
        newIdx == MutantPosition(ms1, change.new_mutant_id)
    IN [ms1 EXCEPT ![newIdx].mutations = Append(@, mutation)]

\* random_neighbour_state: the moves its loop may break with (a random mutation of a random
\* mutant, and a random other mutant compatible with it).
RandomNeighbourStates(ms, g, cap) ==
    UNION { UNION { { MoveMutation(ms[i].mutations[k].id, ms[i].id, ms[j].id) :
                        j \in { n \in 1..Len(ms) :
                                  /\ ms[n].id # ms[i].id
                                  /\ CompatibleMutant(ms[i].mutations[k], ms[n], g, cap) } } :
                    k \in 1..Len(ms[i].mutations) } :
            i \in 1..Len(ms) }

\* energy: the number of mutants, less one if the move empties its old mutant.
Energy(ms, change, withChange) ==
    IF withChange /\ Len(ms[MutantPosition(ms, change.old_mutant_id)].mutations) <= 1
    THEN Len(ms) - 1
    ELSE Len(ms)

\* acceptance_probability(curr, next, temp) >= rng.gen_range(0.0..1.0): the outcomes. The
\* probability is 1 when next < curr, and exp(-0/temp) = 1 when next = curr; it is below 1,
\* and the draw decides, only when next > curr.
Accepts(currEnergy, nextEnergy) ==
    IF nextEnergy <= currEnergy THEN {TRUE} ELSE BOOLEAN

\* The argument the annealing loop passes to temperature as iterations_expended,
\* 1 - (i + 1) / max_iterations, as its numerator over max_iterations.
IterationsExpended(i, max) == max - (i + 1)

\* temperature(iterations_expended, max_iterations) =
\* max_iterations * (1 - iterations_expended), for iterations_expended given as a numerator
\* over max_iterations: max * (1 - n / max) = max - n.
Temperature(expended, max) == max - expended

(***************************************************************************)
(* The inputs of the conflict analysis and the batching.                   *)
(***************************************************************************)
\* Targets as reachable_fns returns them: each reached from at least one test.
TargetF == MkTarget("f", UNone, [t \in {"t1"} |-> EntryPoint(0, NoSource)], 0)

TargetG == MkTarget("g", UNone, [t \in {"t2"} |-> EntryPoint(1, NoSource)], 1)

TargetH == MkTarget("h", UNone,
                    [t \in {"t1", "t2"} |-> EntryPoint(IF t = "t1" THEN 1 ELSE 0, NoSource)], 0)

TargetU == MkTarget("u", UnsafeOf("EnclosingUnsafe"), [t \in {"t3"} |-> EntryPoint(0, NoSource)], 0)

\* What an operator may record at a location: target, is_in_unsafe_block, substitutions.
Recorded(target, inUnsafe, substs) ==
    [target |-> target, is_in_unsafe_block |-> inUnsafe, substs |-> substs]

RecordedPool ==
    { Recorded(TargetF, FALSE, <<SubstDef("Replace", 1)>>),
      Recorded(TargetF, FALSE, <<SubstDef("InsertBefore", 2), SubstDef("Replace", 3)>>),
      Recorded(TargetG, FALSE, <<SubstDef("InsertAfter", 3)>>),
      Recorded(TargetH, FALSE, <<SubstDef("Replace", 5)>>),
      Recorded(TargetU, FALSE, <<SubstDef("Replace", 6)>>),
      Recorded(TargetU, TRUE, <<SubstDef("Replace", 7)>>) }

\* What apply_mutation_operators can record under a policy: it skips targets with any
\* unsafety under None and targets of unsafe source Unsafe unless inside_unsafe; visit_block
\* enters unsafe blocks only if inside_unsafe, and only there (or in an unsafe fn) is
\* is_in_unsafe_block set.
Recordable(r, p) ==
    /\ ~(~TargetingAny(p) /\ UnsafetyAny(r.target.unsafety))
    /\ ~(~InsideUnsafe(p) /\ r.target.unsafety \in {UnsafeOf("Unsafe"), Tainted("Unsafe")})
    /\ r.is_in_unsafe_block => InsideUnsafe(p) /\ r.target.unsafety.kind = "Unsafe"
    /\ r.target.unsafety = UnsafeOf("Unsafe") => r.is_in_unsafe_block

\* The mutation lists of up to MaxMuts mutations recordable under a policy, each recorded at
\* most once, with ids 1..n in list order.
MutationLists(p) ==
    UNION { { [i \in 1..n |-> MkMut(i, rs[i].target, rs[i].is_in_unsafe_block, rs[i].substs)] :
                rs \in { q \in [1..n -> {r \in RecordedPool : Recordable(r, p)}] :
                           \A i, j \in 1..n : q[i] = q[j] => i = j } } :
            n \in 0..MaxMuts }

EmptyGraph == [n_mutations |-> 0, unsafes |-> {}, conflicts |-> {}]

NoChange == MoveMutation(0, 0, 0)

(***************************************************************************)
(* State.                                                                  *)
(***************************************************************************)
VARIABLES
    mutations,                  \* the mutation list of the run
    unsafe_targeting,           \* opts.unsafe_targeting
    mutant_max_mutations_count, \* opts.mutant_max_mutations_count
    graph,                      \* the MutationConflictGraph
    bpc,                        \* where the batching is
    algorithm,                  \* the batching algorithm that produced `mutants`
    epsilon,                    \* whether batch_mutations_greedy was given an epsilon
    queue,                      \* the mutations the batching loop has not yet placed
    mutants,                    \* Vec<Mutant>
    next_mutant_index,          \* next_mutant_index of the batching loop
    max_iterations,             \* max_iterations of the annealing
    iteration,                  \* i of the annealing loop
    last_change,                \* the move the last annealing iteration applied, if any
    temp,                       \* temp of the last annealing iteration
    krate,                      \* the crate reachable_fns walks: its tests and definitions
    depth,                      \* depth of reachable_fns
    rpc,                        \* where reachable_fns is
    distance,                   \* distance of the round loop of reachable_fns
    previously_found_callees,   \* FxHashMap<Callee, CallPaths>
    newly_found_callees,        \* FxHashMap<Callee, CallPaths> of the current round
    targets,                    \* FxHashMap<LocalDefId, Target>
    operators,                  \* the mutation operators, each as the locations at which it yields a mutation
    collector,                  \* the MutationCollector of apply_mutation_operators
    pending,                    \* the targets apply_mutation_operators has not yet iterated over
    cpc,                        \* where apply_mutation_operators is
    vpc,                        \* where the validation is
    mutation_validation,        \* the result of validate_mutations
    batch_validation,           \* the result of validate_mutation_batches
    mutant_meta,                \* the MutantMeta run_tests evaluates
    exhaustive,                 \* exhaustive of run_tests
    thread_pool,                \* how many tests the test runner runs at a time
    scheduled_tests,            \* tests of run_tests, as handed to the test runner
    remaining_tests,            \* the tests the test runner has not started yet
    running_tests,              \* the tests the test runner has started and not reported
    results,                    \* HashMap<u32, MutationTestResults>
    completed_tests_count,      \* completed_tests_count of run_tests
    hpc,                        \* where run_tests is
    static_mutants,             \* the mutants of the program (mutants of mutest_main_static)
    test_run_strategy,          \* test_run_strategy of run_tests
    isolated_workers,           \* the child processes of the running tests, by test
    mpc,                        \* where mutest_main is
    profiled_tests,             \* the tests of the program with the results of the reference run
    mutant_index,               \* the position of the loop of run_mutation_analysis
    active_mutant_handle,       \* the mutant whose substitution map is active, 0 for None
    mutation_detection_matrix,  \* the verdict of each mutation evaluated so far
    all_test_runs_failed_successfully, \* results.all_test_runs_failed_successfully
    exit_code                   \* the exit code of the process, -1 while it runs

batchVars == <<mutations, unsafe_targeting, mutant_max_mutations_count, graph, bpc, algorithm,
               epsilon, queue, mutants, next_mutant_index, max_iterations, iteration,
               last_change, temp>>

reachVars == <<krate, depth, rpc, distance, previously_found_callees, newly_found_callees,
               targets>>

collectVars == <<operators, collector, pending, cpc>>

validateVars == <<vpc, mutation_validation, batch_validation>>

harnessVars == <<mutant_meta, exhaustive, thread_pool, scheduled_tests, remaining_tests,
                 running_tests, results, completed_tests_count, hpc, static_mutants,
                 test_run_strategy, isolated_workers>>

mainVars == <<mpc, profiled_tests, mutant_index, active_mutant_handle,
              mutation_detection_matrix, all_test_runs_failed_successfully, exit_code>>

vars == <<batchVars, reachVars, collectVars, validateVars, harnessVars, mainVars>>

\* What the batching, reachable_fns and apply_mutation_operators each leave alone.
nonBatchVars == <<reachVars, collectVars, validateVars, harnessVars, mainVars>>

nonReachVars == <<batchVars, collectVars, validateVars, harnessVars, mainVars>>

nonCollectVars == <<batchVars, reachVars, validateVars, harnessVars, mainVars>>

nonHarnessVars == <<batchVars, reachVars, collectVars, validateVars, mainVars>>

\* Result<(), Vec<E>>: Ok(()) is the empty list of errors.
Ok == <<>>

\* The validation is not running.
ValidateIdle ==
    /\ vpc = "-"
    /\ mutation_validation = Ok
    /\ batch_validation = Ok

\* The empty FxHashMap.
EmptyMap == [x \in {} |-> x]

\* run_tests is not running.
HarnessIdle ==
    /\ mutant_meta = [id |-> 0, mutations |-> <<>>]
    /\ exhaustive = FALSE
    /\ thread_pool = 1
    /\ scheduled_tests = <<>>
    /\ remaining_tests = <<>>
    /\ running_tests = {}
    /\ results = EmptyMap
    /\ completed_tests_count = 0
    /\ hpc = "-"
    /\ static_mutants = <<>>
    /\ test_run_strategy = [kind |-> "InProcess", mutant_id |-> 0]
    /\ isolated_workers = EmptyMap

\* mutest_main is not running.
MainIdle ==
    /\ mpc = "-"
    /\ profiled_tests = <<>>
    /\ mutant_index = 0
    /\ active_mutant_handle = 0
    /\ mutation_detection_matrix = EmptyMap
    /\ all_test_runs_failed_successfully = TRUE
    /\ exit_code = -1

\* reachable_fns is not running.
ReachRunIdle ==
    /\ depth = 0
    /\ rpc = "-"
    /\ distance = 0
    /\ previously_found_callees = EmptyMap
    /\ newly_found_callees = EmptyMap

\* reachable_fns is not running and there is no crate under analysis.
ReachIdle ==
    /\ krate = EmptyMap
    /\ targets = EmptyMap
    /\ ReachRunIdle

\* apply_mutation_operators is not running.
CollectIdle ==
    /\ operators = <<>>
    /\ collector = [is_in_unsafe_block |-> FALSE, next_mut_index |-> 1, mutations |-> <<>>]
    /\ pending = {}
    /\ cpc = "-"

\* The batching is not running.
BatchRunIdle ==
    /\ mutations = <<>>
    /\ mutant_max_mutations_count = 0
    /\ graph = EmptyGraph
    /\ bpc = "-"
    /\ algorithm = "-"
    /\ epsilon = FALSE
    /\ queue = <<>>
    /\ mutants = <<>>
    /\ next_mutant_index = 1
    /\ max_iterations = 0
    /\ iteration = 0
    /\ last_change = NoChange
    /\ temp = 0

\* The batching is not running and no policy is in force.
BatchIdle ==
    /\ unsafe_targeting = "None"
    /\ BatchRunIdle

BatchInit ==
    /\ unsafe_targeting \in UnsafeTargeting
    /\ mutations \in MutationLists(unsafe_targeting)
    /\ mutant_max_mutations_count \in 0..MaxCap
    /\ graph = EmptyGraph
    /\ bpc = "mutations"
    /\ algorithm = "-"
    /\ epsilon = FALSE
    /\ queue = <<>>
    /\ mutants = <<>>
    /\ next_mutant_index = 1
    /\ max_iterations = 0
    /\ iteration = 0
    /\ last_change = NoChange
    /\ temp = 0
    /\ ReachIdle
    /\ CollectIdle
    /\ ValidateIdle
    /\ HarnessIdle
    /\ MainIdle

\* generate_mutation_conflict_graph(&mutations, opts.unsafe_targeting).
GenerateGraph ==
    /\ UNCHANGED <<temp, nonBatchVars>>
    /\ bpc = "mutations"
    /\ graph' = GenerateMutationConflictGraph(mutations, unsafe_targeting)
    /\ bpc' = "graph"
    /\ UNCHANGED <<mutations, unsafe_targeting, mutant_max_mutations_count, algorithm, epsilon,
                   queue, mutants, next_mutant_index, max_iterations, iteration, last_change>>

\* batch_mutations_dummy(mutations).
BatchDummy ==
    /\ UNCHANGED <<temp, nonBatchVars>>
    /\ bpc = "graph"
    /\ mutants' = BatchMutationsDummy(mutations)
    /\ next_mutant_index' = Len(mutations) + 1
    /\ algorithm' = "dummy"
    /\ bpc' = "batched"
    /\ UNCHANGED <<mutations, unsafe_targeting, mutant_max_mutations_count, graph, epsilon, queue,
                   max_iterations, iteration, last_change>>

\* batch_mutations_greedy, up to its loop: the ordering heuristic is applied.
GreedyBegin ==
    /\ UNCHANGED <<temp, nonBatchVars>>
    /\ bpc = "graph"
    /\ \E ordering \in GreedyOrderings :
          queue' \in OrderMutations(mutations, graph, ordering)
    /\ epsilon' \in BOOLEAN
    /\ mutants' = <<>>
    /\ next_mutant_index' = 1
    /\ algorithm' = "greedy"
    /\ bpc' = "placing"
    /\ UNCHANGED <<mutations, unsafe_targeting, mutant_max_mutations_count, graph,
                   max_iterations, iteration, last_change>>

\* One iteration of the loop of batch_mutations_greedy.
GreedyStep ==
    /\ UNCHANGED <<temp, nonBatchVars>>
    /\ bpc = "placing" /\ algorithm = "greedy" /\ queue # <<>>
    /\ \E idx \in GreedyCandidates(Head(queue), mutants, graph, mutant_max_mutations_count, epsilon) :
          /\ mutants' = Place(Head(queue), mutants, idx, next_mutant_index)
          /\ next_mutant_index' = IF idx = 0 THEN next_mutant_index + 1 ELSE next_mutant_index
    /\ queue' = Tail(queue)
    /\ UNCHANGED <<mutations, unsafe_targeting, mutant_max_mutations_count, graph, bpc, algorithm,
                   epsilon, max_iterations, iteration, last_change>>

\* batch_mutations_random, up to its loop.
RandomBegin ==
    /\ UNCHANGED <<temp, nonBatchVars>>
    /\ bpc = "graph"
    /\ queue' = mutations
    /\ epsilon' = FALSE
    /\ mutants' = <<>>
    /\ next_mutant_index' = 1
    /\ algorithm' = "random"
    /\ bpc' = "placing"
    /\ UNCHANGED <<mutations, unsafe_targeting, mutant_max_mutations_count, graph,
                   max_iterations, iteration, last_change>>

\* One iteration of the loop of batch_mutations_random.
RandomStep ==
    /\ UNCHANGED <<temp, nonBatchVars>>
    /\ bpc = "placing" /\ algorithm = "random" /\ queue # <<>>
    /\ \E idx \in ChooseRandomMutant(Head(queue), mutants, graph, mutant_max_mutations_count) :
          /\ mutants' = Place(Head(queue), mutants, idx, next_mutant_index)
          /\ next_mutant_index' = IF idx = 0 THEN next_mutant_index + 1 ELSE next_mutant_index
    /\ queue' = Tail(queue)
    /\ UNCHANGED <<mutations, unsafe_targeting, mutant_max_mutations_count, graph, bpc, algorithm,
                   epsilon, max_iterations, iteration, last_change>>

\* The batching loop has consumed the list: the function returns `mutants`.
BatchReturn ==
    /\ UNCHANGED <<temp, nonBatchVars>>
    /\ bpc = "placing" /\ queue = <<>>
    /\ bpc' = "batched"
    /\ UNCHANGED <<mutations, unsafe_targeting, mutant_max_mutations_count, graph, algorithm,
                   epsilon, queue, mutants, next_mutant_index, max_iterations, iteration,
                   last_change>>

\* optimize_batches_simulated_annealing is called on a batching.
AnnealBegin ==
    /\ UNCHANGED <<temp, nonBatchVars>>
    /\ bpc = "batched"
    /\ max_iterations' \in 0..MaxIterations
    /\ iteration' = 0
    /\ bpc' = "annealing"
    /\ UNCHANGED <<mutations, unsafe_targeting, mutant_max_mutations_count, graph, algorithm,
                   epsilon, queue, mutants, next_mutant_index, last_change>>

\* One iteration of the annealing loop that gets a move from random_neighbour_state.
AnnealIteration ==
    /\ UNCHANGED nonBatchVars
    /\ bpc = "annealing" /\ iteration < max_iterations
    /\ temp' = Temperature(IterationsExpended(iteration, max_iterations), max_iterations)
    /\ \E change \in RandomNeighbourStates(mutants, graph, mutant_max_mutations_count) :
        \E accept \in Accepts(Energy(mutants, change, FALSE), Energy(mutants, change, TRUE)) :
          /\ mutants' = IF accept THEN Apply(mutants, change) ELSE mutants
          /\ last_change' = IF accept THEN change ELSE NoChange
    /\ iteration' = iteration + 1
    /\ UNCHANGED <<mutations, unsafe_targeting, mutant_max_mutations_count, graph, bpc, algorithm,
                   epsilon, queue, next_mutant_index, max_iterations>>

\* An iteration in which random_neighbour_state cannot return: with no mutant at all,
\* mutants.choose(rng) is None and unreachable!() panics; with mutants but no mutation that
\* has a compatible other mutant, its loop never breaks.
AnnealNoNeighbour ==
    /\ UNCHANGED nonBatchVars
    /\ bpc = "annealing" /\ iteration < max_iterations
    /\ temp' = Temperature(IterationsExpended(iteration, max_iterations), max_iterations)
    /\ RandomNeighbourStates(mutants, graph, mutant_max_mutations_count) = {}
    /\ bpc' = IF mutants = <<>> THEN "panicked" ELSE "spinning"
    /\ UNCHANGED <<mutations, unsafe_targeting, mutant_max_mutations_count, graph, algorithm,
                   epsilon, queue, mutants, next_mutant_index, max_iterations, iteration,
                   last_change>>

\* The annealing loop has run max_iterations times: the function returns.
AnnealReturn ==
    /\ UNCHANGED <<temp, nonBatchVars>>
    /\ bpc = "annealing" /\ iteration = max_iterations
    /\ bpc' = "annealed"
    /\ UNCHANGED <<mutations, unsafe_targeting, mutant_max_mutations_count, graph, algorithm,
                   epsilon, queue, mutants, next_mutant_index, max_iterations, iteration,
                   last_change>>

BatchNext ==
    \/ GenerateGraph
    \/ BatchDummy
    \/ GreedyBegin
    \/ GreedyStep
    \/ RandomBegin
    \/ RandomStep
    \/ BatchReturn
    \/ AnnealBegin
    \/ AnnealIteration
    \/ AnnealNoNeighbour
    \/ AnnealReturn

SpecBatch == BatchInit /\ [][BatchNext]_vars

(***************************************************************************)
(* Function bodies and check_item_unsafety.                                *)
(***************************************************************************)
\* ast::BlockCheckMode: Default, Unsafe(UserProvided), Unsafe(CompilerGenerated).
BlockCheckMode == {"Default", "UnsafeUserProvided", "UnsafeCompilerGenerated"}

\* An expression statement of a block, with its node id.
Expr(n) == [node |-> "expr", id |-> n]

\* ast::Block: its node id, its rules and its statements.
Block(n, rules, stmts) == [node |-> "block", id |-> n, rules |-> rules, stmts |-> stmts]

\* fn f() { e1; { e2 } }
BodySafe == Block(10, "Default", <<Expr(1), Block(11, "Default", <<Expr(2)>>)>>)

\* fn f() { e1; unsafe { e2; { e3 } }; e4 }
BodyEnclosing ==
    Block(10, "Default",
          <<Expr(1),
            Block(11, "UnsafeUserProvided", <<Expr(2), Block(12, "Default", <<Expr(3)>>)>>),
            Expr(4)>>)

\* A function declared without a body (`fn f();`).
NoBody == [node |-> "none", id |-> 0, rules |-> "Default", stmts |-> <<>>]

RECURSIVE BodyUnsafetyChecker(_)
\* BodyUnsafetyChecker::visit_block: whether the walk sets
\* unsafety = Some(Unsafe(EnclosingUnsafe)), which a user-provided unsafe block does.
BodyUnsafetyChecker(block) ==
    IF block.rules = "UnsafeUserProvided" THEN TRUE
    ELSE \E i \in 1..Len(block.stmts) :
            block.stmts[i].node = "block" /\ BodyUnsafetyChecker(block.stmts[i])

\* check_item_unsafety of a function item.
CheckItemUnsafety(item) ==
    IF item.header_unsafe THEN UnsafeOf("Unsafe")
    ELSE IF item.body = NoBody THEN UNone
    ELSE IF BodyUnsafetyChecker(item.body) THEN UnsafeOf("EnclosingUnsafe")
    ELSE UNone

(***************************************************************************)
(* reachable_fns.                                                          *)
(***************************************************************************)
\* Deepest call graph depth tried (the option is a usize: 0 is a value).
MaxDepth == 3

DefIds == {"f", "g", "h"}

ReachTests == {"t1", "t2"}

\* Generic arguments: two concrete lists, and "T", the parameter of the enclosing function.
ConcreteArgs == {"A", "B"}

\* struct Callee.
Callee(def, args) == <<def, args>>

\* One element of res::mir_callees: the called definition, the generic arguments written at
\* the call and the hir::Unsafety of the call.
Call(def, args, unsafety) == [def_id |-> def, generic_args |-> args, unsafety |-> unsafety]

\* res::instantiate_generic_args: the caller's arguments folded into those of the call.
InstantiateGenericArgs(callArgs, callerArgs) == IF callArgs = "T" THEN callerArgs ELSE callArgs

\* What reachable_fns asks about a definition: tcx.is_const_fn, DefId::as_local, the skip
\* conditions (in a test, cfg(test), mutest::skip), find_def_in_ast, tcx.is_mir_available, the
\* unsafety of the fn header, the body and the calls of the body.
Item(const, local, skip, inAst, mir, headerUnsafe, body, calls) ==
    [is_const_fn |-> const, is_local |-> local, skip |-> skip, in_ast |-> inAst,
     mir_available |-> mir, header_unsafe |-> headerUnsafe, body |-> body, calls |-> calls]

\* A local, mutable fn.
ItemFn(headerUnsafe, body, calls) ==
    Item(FALSE, TRUE, FALSE, TRUE, TRUE, headerUnsafe, body, calls)

\* #[test] fn: test.ignore and the calls of its body.
TestFn(ignore, calls) == [ignore |-> ignore, calls |-> calls]

\* The definitions of f: safe, with an unsafe block, or an unsafe fn. A call is Unsafe only
\* in an unsafe block or an unsafe fn, and every call of an unsafe fn is.
ItemsF ==
    { ItemFn(FALSE, BodySafe, cs) :
        cs \in { {}, {Call("g", "T", "Normal")},
                 {Call("g", "T", "Normal"), Call("h", "T", "Normal")} } }
    \cup { ItemFn(FALSE, BodyEnclosing, cs) :
        cs \in { {Call("g", "T", "Normal")}, {Call("g", "T", "Unsafe")},
                 {Call("g", "T", "Unsafe"), Call("h", "T", "Normal")} } }
    \cup { ItemFn(TRUE, BodySafe, {Call("g", "T", "Unsafe")}) }

\* The definitions of g: as f, calling h or back to f; or a const fn, a fn without body, a
\* skipped fn, a fn that is not found in the AST, or a fn of another crate with or without MIR.
ItemsG ==
    { ItemFn(FALSE, BodySafe, cs) :
        cs \in { {}, {Call("h", "T", "Normal")}, {Call("f", "T", "Normal")} } }
    \cup { ItemFn(FALSE, BodyEnclosing, cs) :
        cs \in { {Call("h", "T", "Unsafe")}, {Call("h", "T", "Normal")} } }
    \cup { ItemFn(TRUE, BodySafe, {Call("h", "T", "Unsafe")}) }
    \cup { Item(TRUE, TRUE, FALSE, TRUE, TRUE, FALSE, BodySafe, {Call("h", "T", "Normal")}),
           Item(FALSE, TRUE, FALSE, TRUE, FALSE, FALSE, NoBody, {}),
           Item(FALSE, TRUE, TRUE, TRUE, TRUE, FALSE, BodySafe, {Call("h", "T", "Normal")}),
           Item(FALSE, TRUE, FALSE, FALSE, TRUE, FALSE, BodySafe, {Call("h", "T", "Normal")}),
           Item(FALSE, FALSE, FALSE, FALSE, TRUE, FALSE, BodySafe, {Call("h", "T", "Normal")}),
           Item(FALSE, FALSE, FALSE, FALSE, FALSE, FALSE, BodySafe, {Call("h", "T", "Normal")}) }

\* The definitions of h: a leaf, or calling back to f.
ItemsH ==
    { ItemFn(FALSE, BodySafe, {}), ItemFn(FALSE, BodySafe, {Call("f", "T", "Normal")}),
      ItemFn(FALSE, BodyEnclosing, {}), ItemFn(TRUE, BodySafe, {}) }

\* The bodies of the tests: t1 calls f::<A>, and perhaps g::<A>; t2 is ignored, or calls
\* nothing, or one of g::<B>, f::<B>, h::<A> (also from an unsafe block).
TestsT1 ==
    { TestFn(FALSE, cs) :
        cs \in { {Call("f", "A", "Normal")},
                 {Call("f", "A", "Normal"), Call("g", "A", "Normal")} } }

TestsT2 ==
    { TestFn(TRUE, {Call("g", "B", "Normal")}) }
    \cup { TestFn(FALSE, cs) :
        cs \in { {}, {Call("g", "B", "Normal")}, {Call("f", "B", "Normal")},
                 {Call("h", "A", "Normal")}, {Call("h", "A", "Unsafe")} } }

\* The crates reachable_fns is run on.
Crates ==
    { [tests |-> [t \in ReachTests |-> IF t = "t1" THEN t1 ELSE t2],
       defs |-> [d \in DefIds |-> IF d = "f" THEN f ELSE IF d = "g" THEN g ELSE h]] :
        t1 \in TestsT1, t2 \in TestsT2, f \in ItemsF, g \in ItemsG, h \in ItemsH }

\* FxHashMap::insert.
MapPut(m, k, v) == [x \in (DOMAIN m) \cup {k} |-> IF x = k THEN v ELSE m[x]]

\* FxHashMap::remove.
MapRemove(m, k) == [x \in (DOMAIN m) \ {k} |-> m[x]]

\* The orders in which the entries of a hash map or set can be iterated.
Orders(S) ==
    { q \in [1..Cardinality(S) -> S] : \A i, j \in 1..Cardinality(S) : q[i] = q[j] => i = j }

\* The seeding loop of reachable_fns: every call of every test that is not ignored is a
\* callee, with the call path None for that test.
SeedCallees(tests) ==
    LET callers(c) == { t \in DOMAIN tests :
                          /\ ~tests[t].ignore
                          /\ \E call \in tests[t].calls :
                                Callee(call.def_id, call.generic_args) = c }
        callees == UNION { { Callee(call.def_id, call.generic_args) : call \in tests[t].calls } :
                             t \in { x \in DOMAIN tests : ~tests[x].ignore } }
    IN  [c \in callees |-> [t \in callers(c) |-> NoSource]]

\* A mutant of the entry of a test in reachable_from: the distance of the current round is
\* written on every merge.
EntryPointInsert(reachable_from, test, dist) ==
    EntryPoint(dist, IF test \in DOMAIN reachable_from
                     THEN reachable_from[test].unsafe_call_path ELSE NoSource)

\* target.reachable_from.entry(test).or_insert_with(..): the entry of the test, made with the
\* distance of the current round if there is none.
EntryPointOrInsert(reachable_from, test, dist) ==
    IF test \in DOMAIN reachable_from THEN reachable_from[test] ELSE EntryPoint(dist, NoSource)

\* A mutant of the merge of a call path into target.unsafety: the taint is assigned.
TargetUnsafetyAssign(caller_tainting, unsafety) == caller_tainting

\* target.unsafety = Ord::max(caller_tainting, target.unsafety).
TargetUnsafetyMerge(caller_tainting, unsafety) == UnsafetyMax(caller_tainting, unsafety)

RECURSIVE MergeCallPaths(_, _, _, _)
\* The loop over call_paths that merges them into the target, in the given order of tests.
MergeCallPaths(target, call_paths, order, dist) ==
    IF order = <<>> THEN target
    ELSE LET test == Head(order)
             unsafety == call_paths[test]
             caller_tainting == IF unsafety = NoSource THEN UNone ELSE Tainted(unsafety)
             entry_point == EntryPointOrInsert(target.reachable_from, test, dist)
             merged == [entry_point EXCEPT
                          !.unsafe_call_path = OptSourceMax(unsafety, entry_point.unsafe_call_path)]
         IN  MergeCallPaths(
                 [target EXCEPT !.unsafety = TargetUnsafetyMerge(caller_tainting, target.unsafety),
                                !.reachable_from = MapPut(target.reachable_from, test, merged)],
                 call_paths, Tail(order), dist)

\* targets.entry(local_def_id).or_insert_with(..), then the merge of the call paths.
MergeTarget(tgts, def, item, call_paths, order, dist) ==
    LET target == IF def \in DOMAIN tgts THEN tgts[def]
                  ELSE MkTarget(def, CheckItemUnsafety(item), EmptyMap, dist)
    IN  MapPut(tgts, def, MergeCallPaths(target, call_paths, order, dist))

RECURSIVE ExtendCallPaths(_, _, _, _)
\* The loop over call_paths that extends them by one call, in the given order of tests.
ExtendCallPaths(new_call_paths, call, call_paths, order) ==
    IF order = <<>> THEN new_call_paths
    ELSE LET test == Head(order)
             unsafety == call_paths[test]
             unsafe_source == IF call.unsafety = "Normal" THEN unsafety ELSE "Unsafe"
             new_unsafety == IF test \in DOMAIN new_call_paths THEN new_call_paths[test]
                             ELSE unsafety
         IN  ExtendCallPaths(MapPut(new_call_paths, test, OptSourceOr(new_unsafety, unsafe_source)),
                             call, call_paths, Tail(order))

RECURSIVE CollectCallees(_, _, _, _, _)
\* The loop over the calls of a caller, in the given order of calls.
CollectCallees(newly, caller, calls, call_paths, order) ==
    IF calls = <<>> THEN newly
    ELSE LET call == Head(calls)
             callee == Callee(call.def_id, InstantiateGenericArgs(call.generic_args, caller[2]))
             new_call_paths == IF callee \in DOMAIN newly THEN newly[callee] ELSE EmptyMap
         IN  CollectCallees(
                 MapPut(newly, callee, ExtendCallPaths(new_call_paths, call, call_paths, order)),
                 caller, Tail(calls), call_paths, order)

\* The caller is recorded as a Target: a local fn that is not skipped and is found in the AST.
RecordsTarget(item) == item.is_local /\ ~item.skip /\ item.in_ast

\* A mutant of the early end of the round loop: a skipped definition ends it too.
SkipsCallerAndSkipped(item) ==
    item.is_const_fn \/ (item.is_local /\ item.body = NoBody) \/ item.skip

\* The body of the round loop ends early: a const fn, or a local definition without body.
SkipsCaller(item) == item.is_const_fn \/ (item.is_local /\ item.body = NoBody)

ReachInit ==
    /\ krate \in Crates
    /\ depth \in 0..MaxDepth
    /\ rpc = "start"
    /\ distance = 0
    /\ previously_found_callees = EmptyMap
    /\ newly_found_callees = EmptyMap
    /\ targets = EmptyMap
    /\ BatchIdle
    /\ CollectIdle
    /\ ValidateIdle
    /\ HarnessIdle
    /\ MainIdle

\* With depth = 0, `depth - 1` underflows a usize when call_graph is made.
ReachDepthUnderflow ==
    /\ rpc = "start" /\ depth = 0
    /\ rpc' = "panicked"
    /\ UNCHANGED <<krate, depth, distance, previously_found_callees, newly_found_callees, targets>>
    /\ UNCHANGED nonReachVars

\* The seeding loop over the tests.
ReachSeed ==
    /\ rpc = "start" /\ depth > 0
    /\ previously_found_callees' = SeedCallees(krate.tests)
    /\ rpc' = "round"
    /\ UNCHANGED <<krate, depth, distance, newly_found_callees, targets>>
    /\ UNCHANGED nonReachVars

\* One iteration of the loop over previously_found_callees.drain(): the map yields its entries
\* in any order, and so do call_paths and the calls of the caller.
ReachCaller ==
    /\ rpc = "round" /\ distance < depth
    /\ \E caller \in DOMAIN previously_found_callees :
        LET item == krate.defs[caller[1]]
            call_paths == previously_found_callees[caller]
        IN  /\ previously_found_callees' = MapRemove(previously_found_callees, caller)
            /\ \E order \in Orders(DOMAIN call_paths) :
                  targets' = IF ~SkipsCaller(item) /\ RecordsTarget(item)
                             THEN MergeTarget(targets, caller[1], item, call_paths, order, distance)
                             ELSE targets
            /\ \E calls \in Orders(item.calls) : \E order \in Orders(DOMAIN call_paths) :
                  newly_found_callees' =
                      IF ~SkipsCaller(item) /\ distance < depth - 1 /\ item.mir_available
                      THEN CollectCallees(newly_found_callees, caller, calls, call_paths, order)
                      ELSE newly_found_callees
    /\ UNCHANGED <<krate, depth, rpc, distance>>
    /\ UNCHANGED nonReachVars

\* The end of a round: previously_found_callees.extend(newly_found_callees.drain()).
ReachRoundEnd ==
    /\ rpc = "round" /\ distance < depth
    /\ previously_found_callees = EmptyMap
    /\ previously_found_callees' = newly_found_callees
    /\ newly_found_callees' = EmptyMap
    /\ distance' = distance + 1
    /\ UNCHANGED <<krate, depth, rpc, targets>>
    /\ UNCHANGED nonReachVars

\* The round loop has run depth times: the function returns the targets.
ReachReturn ==
    /\ rpc = "round" /\ distance = depth
    /\ rpc' = "returned"
    /\ UNCHANGED <<krate, depth, distance, previously_found_callees, newly_found_callees, targets>>
    /\ UNCHANGED nonReachVars

ReachNext ==
    \/ ReachDepthUnderflow
    \/ ReachSeed
    \/ ReachCaller
    \/ ReachRoundEnd
    \/ ReachReturn

SpecReach == ReachInit /\ [][ReachNext]_vars

(***************************************************************************)
(* apply_mutation_operators and the MutationCollector.                     *)
(***************************************************************************)
\* Most targets handed to apply_mutation_operators.
MaxTargets == 2

\* fn f() { e1; unsafe { e2; e3 } }, the unsafe block generated by the compiler.
BodyCompilerUnsafe ==
    Block(10, "Default",
          <<Expr(1), Block(11, "UnsafeCompilerGenerated", <<Expr(2), Expr(3)>>)>>)

\* fn f() { unsafe { unsafe { e1; e2 }; e3 }; e4 }
BodyNested ==
    Block(10, "Default",
          <<Block(11, "UnsafeUserProvided",
                  <<Block(12, "UnsafeUserProvided", <<Expr(1), Expr(2)>>), Expr(3)>>),
            Expr(4)>>)

\* The node id of the fn item itself (MutLoc::Fn).
FnNode == 0

\* ast::BlockCheckMode::Unsafe(_).
IsUnsafeRules(rules) == rules \in {"UnsafeUserProvided", "UnsafeCompilerGenerated"}

\* The locations at which the operators yield a mutation: everywhere, at the expressions
\* that are not blocks, at the fn item and the block expressions, or nowhere.
OperatorYields == { {0, 1, 2, 3, 4, 11, 12}, {1, 2, 3, 4}, {0, 11, 12}, {} }

\* The collector fields the walk changes.
Collector(inUnsafe, nextIndex, muts) ==
    [is_in_unsafe_block |-> inUnsafe, next_mut_index |-> nextIndex, mutations |-> muts]

\* The operator lists of a run: one operator with any of these yields, or two operators
\* that both yield at the expressions.
OperatorLists ==
    { <<ys>> : ys \in OperatorYields } \cup { <<{0, 1, 2, 3, 4, 11, 12}, {1, 2, 3, 4}>> }

\* A mutant of the push of register_mutations!: next_mut_index is not advanced.
PushMutationSameIndex(c, target, node) ==
    Collector(c.is_in_unsafe_block, c.next_mut_index,
              Append(c.mutations,
                     MkMut(c.next_mut_index, target, c.is_in_unsafe_block,
                           <<SubstDef("Replace", node)>>)))

\* The body of the loops of register_mutations!: the mutation is pushed with the next id, the
\* current target and the current is_in_unsafe_block, and next_mut_index is advanced.
PushMutation(c, target, node) ==
    Collector(c.is_in_unsafe_block, c.next_mut_index + 1,
              Append(c.mutations,
                     MkMut(c.next_mut_index, target, c.is_in_unsafe_block,
                           <<SubstDef("Replace", node)>>)))

RECURSIVE RegisterMutations(_, _, _, _)
\* register_mutations!: the operators in order, each pushing the mutation it yields at the
\* location.
RegisterMutations(c, target, node, yields) ==
    IF yields = <<>> THEN c
    ELSE RegisterMutations(IF node \in Head(yields) THEN PushMutation(c, target, node) ELSE c,
                           target, node, Tail(yields))

\* A mutant of the early return of visit_block: unsafe blocks are entered under every policy.
SkipsBlockNever(block, p) == FALSE

\* MutationCollector::visit_block returns early on an unsafe block unless inside_unsafe.
SkipsBlock(block, p) == ~InsideUnsafe(p) /\ IsUnsafeRules(block.rules)

RECURSIVE VisitBlock(_, _, _, _, _)
RECURSIVE VisitExpr(_, _, _, _, _)
RECURSIVE WalkBlock(_, _, _, _, _)
\* A mutant of visit_block: is_in_unsafe_block is not put back on leaving the block.
VisitBlockNoRestore(c, block, target, p, yields) ==
    IF SkipsBlock(block, p) THEN c
    ELSE WalkBlock(IF IsUnsafeRules(block.rules)
                   THEN [c EXCEPT !.is_in_unsafe_block = TRUE] ELSE c,
                   block.stmts, target, p, yields)

\* MutationCollector::visit_block.
VisitBlock(c, block, target, p, yields) ==
    IF SkipsBlock(block, p) THEN c
    ELSE LET is_in_unsafe_block == c.is_in_unsafe_block
             entered == IF IsUnsafeRules(block.rules)
                        THEN [c EXCEPT !.is_in_unsafe_block = TRUE] ELSE c
             walked == WalkBlock(entered, block.stmts, target, p, yields)
         IN  IF IsUnsafeRules(block.rules)
             THEN [walked EXCEPT !.is_in_unsafe_block = is_in_unsafe_block]
             ELSE walked

\* MutationCollector::visit_expr, for a block expression or any other expression: a block
\* expression of a single statement is not a location, its statement is visited instead.
VisitExpr(c, expr, target, p, yields) ==
    IF expr.node = "expr" THEN RegisterMutations(c, target, expr.id, yields)
    ELSE IF Len(expr.stmts) = 1 THEN VisitBlock(c, expr, target, p, yields)
    ELSE VisitBlock(RegisterMutations(c, target, expr.id, yields), expr, target, p, yields)

\* ast::visit::walk_block: the statements in order (visit_stmt passes on to visit_expr).
WalkBlock(c, stmts, target, p, yields) ==
    IF stmts = <<>> THEN c
    ELSE WalkBlock(VisitExpr(c, Head(stmts), target, p, yields), Tail(stmts), target, p, yields)

\* MutationCollector::visit_fn: the fn item is a location, then the body is walked.
VisitFn(c, item, target, p, yields) ==
    LET registered == RegisterMutations(c, target, FnNode, yields)
    IN  IF item.body = NoBody THEN registered
        ELSE VisitBlock(registered, item.body, target, p, yields)

\* The loop of apply_mutation_operators passes over the target.
SkipsTarget(target, p) ==
    \/ ~TargetingAny(p) /\ UnsafetyAny(target.unsafety)
    \/ ~InsideUnsafe(p) /\ target.unsafety \in {UnsafeOf("Unsafe"), Tainted("Unsafe")}

\* One iteration of the loop of apply_mutation_operators.
CollectTarget(c, target, item, p, yields) ==
    IF SkipsTarget(target, p) THEN c
    ELSE LET started == [c EXCEPT !.is_in_unsafe_block = (target.unsafety = UnsafeOf("Unsafe"))]
         IN  IF item.in_ast THEN VisitFn(started, item, target, p, yields) ELSE started

\* The definitions apply_mutation_operators is run on, each with the call-path unsafety
\* reachable_fns merged into its Target.
CollectDefs == <<"f", "g", "h">>

CollectItems ==
    { <<ItemFn(FALSE, body, {}), NoSource>> :
        body \in {BodySafe, BodyEnclosing, BodyCompilerUnsafe, BodyNested} }
    \cup { <<ItemFn(FALSE, body, {}), "Unsafe">> :
        body \in {BodySafe, BodyEnclosing, BodyCompilerUnsafe} }
    \cup { <<ItemFn(TRUE, body, {}), NoSource>> : body \in {BodySafe, BodyEnclosing} }

\* The Target reachable_fns returns for a definition reached from t1 by such call paths.
TargetOf(def, item, unsafe_call_path) ==
    MkTarget(def,
             UnsafetyMax(IF unsafe_call_path = NoSource THEN UNone ELSE Tainted(unsafe_call_path),
                         CheckItemUnsafety(item)),
             [t \in {"t1"} |-> EntryPoint(0, unsafe_call_path)], 0)

CollectInit ==
    /\ unsafe_targeting \in UnsafeTargeting
    /\ operators \in OperatorLists
    /\ \E n \in 1..MaxTargets :
        \E chosen \in [{CollectDefs[i] : i \in 1..n} -> CollectItems] :
          /\ krate = [tests |-> EmptyMap, defs |-> [d \in DOMAIN chosen |-> chosen[d][1]]]
          /\ targets = [d \in DOMAIN chosen |-> TargetOf(d, chosen[d][1], chosen[d][2])]
    /\ collector = Collector(FALSE, 1, <<>>)
    /\ pending = {}
    /\ cpc = "start"
    /\ BatchRunIdle
    /\ ReachRunIdle
    /\ ValidateIdle
    /\ HarnessIdle
    /\ MainIdle

\* apply_mutation_operators makes the collector: no target, not in an unsafe block, the
\* first id is 1.
CollectBegin ==
    /\ cpc = "start"
    /\ collector' = Collector(FALSE, 1, <<>>)
    /\ pending' = DOMAIN targets
    /\ cpc' = "targets"
    /\ UNCHANGED <<operators, nonCollectVars>>

\* One iteration of `for target in targets`, the targets coming in any order.
CollectVisit ==
    /\ cpc = "targets"
    /\ \E def \in pending :
          /\ collector' = CollectTarget(collector, targets[def], krate.defs[def],
                                        unsafe_targeting, operators)
          /\ pending' = pending \ {def}
    /\ UNCHANGED <<operators, cpc, nonCollectVars>>

\* The loop is over: collector.mutations is returned.
CollectReturn ==
    /\ cpc = "targets" /\ pending = {}
    /\ cpc' = "returned"
    /\ UNCHANGED <<operators, collector, pending, nonCollectVars>>

CollectNext ==
    \/ CollectBegin
    \/ CollectVisit
    \/ CollectReturn

SpecCollect == CollectInit /\ [][CollectNext]_vars

(***************************************************************************)
(* validate_mutations and validate_mutation_batches.                       *)
(***************************************************************************)
\* ast::DUMMY_NODE_ID, the id no node of the crate has.
DummyNodeId == -1

\* A mutant of SubstLoc::is_dummy: the InsertAfter arm never matches.
IsDummyButInsertAfter(loc) ==
    CASE loc.kind = "InsertBefore" -> loc.node = DummyNodeId
      [] loc.kind = "InsertAfter" -> FALSE
      [] loc.kind = "Replace" -> loc.node = DummyNodeId

\* SubstLoc::is_dummy.
IsDummy(loc) ==
    CASE loc.kind = "InsertBefore" -> loc.node = DummyNodeId
      [] loc.kind = "InsertAfter" -> loc.node = DummyNodeId
      [] loc.kind = "Replace" -> loc.node = DummyNodeId

\* MutationError::DummySubsts(mutation, dummy_substs).
DummySubsts(mutation, dummy_substs) ==
    [error |-> "DummySubsts", mutation |-> mutation, substs |-> dummy_substs]

\* validate_mutations: the errors in list order, Ok if there is none.
ValidateMutations(muts) ==
    LET is_dummy(s) == IsDummy(s.location)
        dummy_substs(m) == SelectSeq(m.substs, is_dummy)
        checked == [i \in 1..Len(muts) |-> DummySubsts(muts[i], dummy_substs(muts[i]))]
        is_error(e) == e.substs # <<>>
    IN  SelectSeq(checked, is_error)

\* MutationBatchesValidationError::ConflictingMutationsInBatch(mutant, [mutation, other]).
ConflictingMutationsInBatch(mutant, mutation, other) ==
    [error |-> "ConflictingMutationsInBatch", mutant |-> mutant,
     mutations |-> <<mutation, other>>]

RECURSIVE MutantErrors(_, _, _, _)
\* The loops of validate_mutation_batches over one mutant: each mutation against those after
\* it, from the pair of positions (i, j) on.
MutantErrors(mutant, g, i, j) ==
    IF i > Len(mutant.mutations) THEN <<>>
    ELSE IF j > Len(mutant.mutations) THEN MutantErrors(mutant, g, i + 1, i + 2)
    ELSE (IF ConflictingMutations(g, mutant.mutations[i].id, mutant.mutations[j].id)
          THEN <<ConflictingMutationsInBatch(mutant, mutant.mutations[i], mutant.mutations[j])>>
          ELSE <<>>)
         \o MutantErrors(mutant, g, i, j + 1)

\* A mutant of validate_mutation_batches: only the first mutant is looked at.
ValidateFirstMutantOnly(ms, g) ==
    IF ms = <<>> THEN Ok ELSE MutantErrors(ms[1], g, 1, 2)

RECURSIVE ValidateMutationBatches(_, _)
\* validate_mutation_batches: the errors in mutant order, Ok if there is none.
ValidateMutationBatches(ms, g) ==
    IF ms = <<>> THEN Ok
    ELSE MutantErrors(Head(ms), g, 1, 2) \o ValidateMutationBatches(Tail(ms), g)

\* What the operators may hand over, dummy-anchored substitutions included.
ValidatePool ==
    { Recorded(TargetF, FALSE, <<SubstDef("Replace", 1)>>),
      Recorded(TargetG, FALSE, <<SubstDef("InsertAfter", 3)>>),
      Recorded(TargetH, FALSE, <<SubstDef("Replace", 5)>>),
      Recorded(TargetU, FALSE, <<SubstDef("Replace", 6)>>),
      Recorded(TargetG, FALSE, <<SubstDef("InsertAfter", DummyNodeId)>>),
      Recorded(TargetF, FALSE, <<SubstDef("InsertBefore", DummyNodeId), SubstDef("Replace", 2),
                                 SubstDef("Replace", DummyNodeId)>>) }

\* The mutation lists of up to MaxMuts such mutations, ids 1..n in list order.
ValidateLists(p) ==
    UNION { { [i \in 1..n |-> MkMut(i, rs[i].target, rs[i].is_in_unsafe_block, rs[i].substs)] :
                rs \in { q \in [1..n -> {r \in ValidatePool : Recordable(r, p)}] :
                           \A i, j \in 1..n : q[i] = q[j] => i = j } } :
            n \in 0..MaxMuts }

\* Every way to batch the list: mutant i holds, in list order, the mutations assigned to i.
Batchings(muts) ==
    LET n == Len(muts)
        held(f, i) == SelectSeq([k \in 1..n |-> k], LAMBDA k : f[k] = i)
        assignments == { f \in [1..n -> 1..n] :
                           \A i \in 1..n : (\E k \in 1..n : f[k] = i) =>
                                           \A h \in 1..i : \E k \in 1..n : f[k] = h }
    IN  { [i \in { f[k] : k \in 1..n } |->
              Mutant(i, [x \in 1..Len(held(f, i)) |-> muts[held(f, i)[x]]])] :
          f \in assignments }

ValidateInit ==
    /\ unsafe_targeting \in UnsafeTargeting
    /\ mutations \in ValidateLists(unsafe_targeting)
    /\ vpc = "mutations"
    /\ mutation_validation = Ok
    /\ batch_validation = Ok
    /\ mutant_max_mutations_count = 0
    /\ graph = EmptyGraph
    /\ bpc = "-"
    /\ algorithm = "-"
    /\ epsilon = FALSE
    /\ queue = <<>>
    /\ mutants = <<>>
    /\ next_mutant_index = 1
    /\ max_iterations = 0
    /\ iteration = 0
    /\ last_change = NoChange
    /\ temp = 0
    /\ ReachIdle
    /\ CollectIdle
    /\ HarnessIdle
    /\ MainIdle

\* validate_mutations(&mutations).
ValidateMutationsCall ==
    /\ vpc = "mutations"
    /\ mutation_validation' = ValidateMutations(mutations)
    /\ vpc' = "validated"
    /\ UNCHANGED <<batch_validation, batchVars, reachVars, collectVars, harnessVars, mainVars>>

\* The mutations are valid: generate_mutation_conflict_graph(&mutations, unsafe_targeting).
ValidateGraph ==
    /\ vpc = "validated" /\ mutation_validation = Ok
    /\ graph' = GenerateMutationConflictGraph(mutations, unsafe_targeting)
    /\ vpc' = "graph"
    /\ UNCHANGED <<mutations, unsafe_targeting, mutant_max_mutations_count, bpc, algorithm,
                   epsilon, queue, mutants, next_mutant_index, max_iterations, iteration,
                   last_change, temp>>
    /\ UNCHANGED <<mutation_validation, batch_validation, reachVars, collectVars, harnessVars, mainVars>>

\* validate_mutation_batches(&mutants, &mutation_conflict_graph), on any batching of the list.
ValidateBatchesCall ==
    /\ vpc = "graph"
    /\ \E batching \in Batchings(mutations) :
          /\ mutants' = batching
          /\ batch_validation' = ValidateMutationBatches(batching, graph)
    /\ vpc' = "batches"
    /\ UNCHANGED <<mutations, unsafe_targeting, mutant_max_mutations_count, graph, bpc, algorithm,
                   epsilon, queue, next_mutant_index, max_iterations, iteration, last_change,
                   temp>>
    /\ UNCHANGED <<mutation_validation, reachVars, collectVars, harnessVars, mainVars>>

ValidateNext ==
    \/ ValidateMutationsCall
    \/ ValidateGraph
    \/ ValidateBatchesCall

SpecValidate == ValidateInit /\ [][ValidateNext]_vars

(***************************************************************************)
(* run_tests of the test harness.                                          *)
(***************************************************************************)
\* Most tests the test runner runs at a time.
MaxWorkers == 2

\* The tests of the program.
HarnessTests == {"t1", "t2", "t3"}

\* test_runner::TestResult, as far as on_test_event tells its values apart.
TestResult == {"Ignored", "Ok", "Failed", "FailedMsg", "CrashedMsg", "TimedOut"}

\* enum MutationSafety.
MutationSafety == {"Safe", "Tainted", "Unsafe"}

\* struct MutationMeta: the id, the safety, and the tests it is reachable from with their
\* distances.
MutationMeta(id, safety, reachable_from) ==
    [id |-> id, safety |-> safety, reachable_from |-> reachable_from]

\* struct MutantMeta.
MutantMeta(id, muts) == [id |-> id, mutations |-> muts]

\* A mutant of MutantMeta::is_unsafe: a tainted mutation does not count.
MutantIsUnsafeOnlyUnsafe(mutant) ==
    \E i \in 1..Len(mutant.mutations) : mutant.mutations[i].safety = "Unsafe"

\* MutantMeta::is_unsafe.
MutantIsUnsafe(mutant) ==
    \E i \in 1..Len(mutant.mutations) : mutant.mutations[i].safety # "Safe"

\* struct MutationTestResults.
MutationTestResults(result, results_per_test) ==
    [result |-> result, results_per_test |-> results_per_test]

\* The metadata generated for a mutation: its safety after the unsafety of its target and
\* its place, and the tests its target is reachable from with their distances.
MutationMetaOf(m) ==
    MutationMeta(m.id,
                 IF m.is_in_unsafe_block \/ m.target.unsafety.kind = "Unsafe" THEN "Unsafe"
                 ELSE IF m.target.unsafety.kind = "Tainted" THEN "Tainted"
                 ELSE "Safe",
                 [t \in DOMAIN m.target.reachable_from |-> m.target.reachable_from[t].distance])

\* The metadata generated for a mutant.
MutantMetaOf(mutant) ==
    MutantMeta(mutant.id,
               [i \in 1..Len(mutant.mutations) |-> MutationMetaOf(mutant.mutations[i])])

\* The mutations the mutants of the program are made of: mutation `id`, at its own node, of a
\* target reachable from the tests `reach`.
HarnessMut(id, unsafety, reach) ==
    MkMut(id, MkTarget(IF id = 1 THEN "f" ELSE "g", unsafety,
                       [t \in reach |-> EntryPoint(1, IF unsafety = Tainted("Unsafe")
                                                       THEN "Unsafe" ELSE NoSource)], 1),
          FALSE, <<SubstDef("Replace", id)>>)

\* The unsafety of the targets of those mutations.
HarnessUnsafeties == {UNone, Tainted("Unsafe"), UnsafeOf("EnclosingUnsafe"), UnsafeOf("Unsafe")}

\* The batches of one or two of those mutations that validate_mutation_batches accepts under
\* the conflict graph of their mutations (policy All).
ValidMutants ==
    LET reach_sets == (SUBSET HarnessTests) \ {{}}
        first == { HarnessMut(1, u, a) : u \in HarnessUnsafeties, a \in reach_sets }
        second == { HarnessMut(2, u, a) : u \in HarnessUnsafeties, a \in reach_sets }
        batches == { Mutant(1, <<m>>) : m \in first }
                   \cup { Mutant(1, <<q[1], q[2]>>) : q \in first \X second }
    IN  { mutant \in batches :
            ValidateMutationBatches(<<mutant>>,
                GenerateMutationConflictGraph(mutant.mutations, "All")) = Ok }

\* The mutants run_tests is given.
MutantMetas == { MutantMetaOf(mutant) : mutant \in ValidMutants }

\* Another mutant of the program, which run_tests is not given.
OtherMutant == MutantMeta(2, <<MutationMeta(3, "Safe", [t \in {"t1"} |-> 1])>>)

\* The tests run_tests is given.
TestLists == { <<"t1", "t2", "t3">>, <<"t3", "t1", "t2">>, <<"t2", "t3">> }

\* tests.retain(..): the tests that reach a mutation of the mutant.
RetainReaching(tests, muts) ==
    LET reaches(t) == \E i \in 1..Len(muts) : t \in DOMAIN muts[i].reachable_from
    IN  SelectSeq(tests, reaches)

SetMax(S) == CHOOSE x \in S : \A y \in S : y <= x

RECURSIVE ParallelismPass(_, _, _, _)
\* A mutant of the for loop of maximize_mutation_parallelism: the last test reaching each
\* mutation is moved over.
ParallelismPassLast(tests, parallelized_tests, muts, i) ==
    IF i > Len(muts) THEN <<tests, parallelized_tests>>
    ELSE LET positions == { k \in 1..Len(tests) : tests[k] \in DOMAIN muts[i].reachable_from }
         IN  IF positions = {} THEN ParallelismPass(tests, parallelized_tests, muts, i + 1)
             ELSE ParallelismPass(RemoveAt(tests, SetMax(positions)),
                                  Append(parallelized_tests, tests[SetMax(positions)]),
                                  muts, i + 1)

\* The for loop of maximize_mutation_parallelism from mutation i on: the first test reaching
\* each mutation is moved over.
ParallelismPass(tests, parallelized_tests, muts, i) ==
    IF i > Len(muts) THEN <<tests, parallelized_tests>>
    ELSE LET positions == { k \in 1..Len(tests) : tests[k] \in DOMAIN muts[i].reachable_from }
         IN  IF positions = {} THEN ParallelismPass(tests, parallelized_tests, muts, i + 1)
             ELSE ParallelismPass(RemoveAt(tests, SetMin(positions)),
                                  Append(parallelized_tests, tests[SetMin(positions)]),
                                  muts, i + 1)

RECURSIVE MaximizeMutationParallelism(_, _, _)
\* maximize_mutation_parallelism: passes over the mutations until no test is left.
MaximizeMutationParallelism(tests, parallelized_tests, muts) ==
    IF tests = <<>> THEN parallelized_tests
    ELSE LET pass == ParallelismPass(tests, parallelized_tests, muts, 1)
         IN  MaximizeMutationParallelism(pass[1], pass[2], muts)

\* The positions of the mutations a test reaches.
ReachedMutations(test, muts) ==
    { i \in 1..Len(muts) : test \in DOMAIN muts[i].reachable_from }

\* The mutation on_test_event finds for a completed test: the first one it reaches.
FindMutation(test, muts) == muts[SetMin(ReachedMutations(test, muts))]

\* The verdict on_test_event enters in results_per_test for a test result.
TestVerdict(result) ==
    CASE result \in {"Ignored", "Ok"} -> "Undetected"
      [] result \in {"Failed", "FailedMsg"} -> "Detected"
      [] result = "CrashedMsg" -> "Crashed"
      [] result = "TimedOut" -> "TimedOut"

\* A mutant of the verdict of on_test_event: the last test that does not pass decides.
MutationVerdictOfLastTest(result, verdict) ==
    IF verdict = "Undetected" THEN result ELSE verdict

\* The result on_test_event leaves for the mutation: a passing test changes nothing, a
\* failing one sets Detected, a crash or a timeout is entered unless the result is Detected.
MutationVerdict(result, verdict) ==
    IF verdict = "Undetected" THEN result
    ELSE IF verdict = "Detected" THEN "Detected"
    ELSE IF result # "Detected" THEN verdict
    ELSE result

\* A mutant of the retain of on_test_event: the queue is left as it is.
RetainNothingRemoved(remaining, mutation) == remaining

\* remaining_tests.retain(..) of on_test_event: the tests reaching the mutation are removed.
RetainNotReaching(remaining, mutation) ==
    LET keeps(t) == t \notin DOMAIN mutation.reachable_from
    IN  SelectSeq(remaining, keeps)

\* No mutation has the verdict Undetected.
AllDetected(res) == \A id \in DOMAIN res : res[id].result # "Undetected"

\* on_test_event for TestEvent::Result: the results, the queue and the Flow it leaves.
OnTestEvent(test, result, res, remaining, muts, exh) ==
    LET mutation == FindMutation(test, muts)
        verdict == TestVerdict(result)
        mutation_results == res[mutation.id]
        new_results ==
            [res EXCEPT ![mutation.id] =
                MutationTestResults(MutationVerdict(mutation_results.result, verdict),
                                    MapPut(mutation_results.results_per_test, test, verdict))]
    IN  IF verdict = "Undetected" \/ exh
        THEN [results |-> new_results, remaining_tests |-> remaining, flow |-> "Continue"]
        ELSE [results |-> new_results,
              remaining_tests |-> RetainNotReaching(remaining, mutation),
              flow |-> IF AllDetected(new_results) THEN "Stop" ELSE "Continue"]

\* TestRunStrategy::InProcess(thread_pool).
InProcess == [kind |-> "InProcess", mutant_id |-> 0]

\* TestRunStrategy::InIsolatedChildProcess with the closure that sets
\* MUTEST_ISOLATED_WORKER_MUTANT_ID to the id of the mutant.
InIsolatedChildProcess(mutant_id) == [kind |-> "InIsolatedChildProcess", mutant_id |-> mutant_id]

\* test_run_strategy of run_tests.
TestRunStrategy(mutant) ==
    IF MutantIsUnsafe(mutant) THEN InIsolatedChildProcess(mutant.id) ELSE InProcess

\* A child process of the test runner as spawned: the test and the mutant id of its
\* environment, and no substitution map active.
SpawnedWorker(mutant_id) == [mutant_id |-> mutant_id, active_mutant |-> 0, running |-> FALSE]

\* mutest_isolated_worker: the mutant with the id of the environment is looked up, its
\* substitution map is made active, and the test is run.
IsolatedWorker(worker, all) ==
    LET found == { i \in 1..Len(all) : all[i].id = worker.mutant_id }
    IN  IF found = {} THEN [worker EXCEPT !.active_mutant = -1]
        ELSE [worker EXCEPT !.active_mutant = all[SetMin(found)].id, !.running = TRUE]

\* The arguments of a call of run_tests.
RunTestsCall(meta, all, exh, pool, tests) ==
    /\ mutant_meta' = meta
    /\ static_mutants' = all
    /\ exhaustive' = exh
    /\ thread_pool' = pool
    /\ scheduled_tests' = tests
    /\ test_run_strategy' = InProcess
    /\ remaining_tests' = <<>>
    /\ running_tests' = {}
    /\ isolated_workers' = EmptyMap
    /\ results' = EmptyMap
    /\ completed_tests_count' = 0
    /\ hpc' = "start"

HarnessInit ==
    /\ mutant_meta \in MutantMetas
    /\ static_mutants = <<OtherMutant, mutant_meta>>
    /\ exhaustive \in BOOLEAN
    /\ thread_pool \in 1..MaxWorkers
    /\ scheduled_tests \in TestLists
    /\ test_run_strategy = InProcess
    /\ remaining_tests = <<>>
    /\ running_tests = {}
    /\ isolated_workers = EmptyMap
    /\ results = EmptyMap
    /\ completed_tests_count = 0
    /\ hpc = "start"
    /\ BatchIdle
    /\ ReachIdle
    /\ CollectIdle
    /\ ValidateIdle
    /\ MainIdle

\* run_tests up to the call of the test runner: the result slots, the tests to run, and the
\* strategy.
RunTestsBegin ==
    /\ hpc = "start"
    /\ results' = [id \in { mutant_meta.mutations[i].id : i \in 1..Len(mutant_meta.mutations) } |->
                      MutationTestResults("Undetected", EmptyMap)]
    /\ scheduled_tests' =
           MaximizeMutationParallelism(RetainReaching(scheduled_tests, mutant_meta.mutations),
                                       <<>>, mutant_meta.mutations)
    /\ remaining_tests' = scheduled_tests'
    /\ test_run_strategy' = TestRunStrategy(mutant_meta)
    /\ hpc' = "running"
    /\ UNCHANGED <<mutant_meta, static_mutants, exhaustive, thread_pool, running_tests,
                   isolated_workers, completed_tests_count>>
    /\ UNCHANGED nonHarnessVars

\* The test runner starts a remaining test while a worker is free; under the isolated
\* strategy it spawns a child process of the program for it.
RunnerStartTest ==
    /\ hpc = "running" /\ Cardinality(running_tests) < thread_pool
    /\ \E k \in 1..Len(remaining_tests) :
          /\ running_tests' = running_tests \cup {remaining_tests[k]}
          /\ remaining_tests' = RemoveAt(remaining_tests, k)
          /\ isolated_workers' =
                 IF test_run_strategy.kind = "InIsolatedChildProcess"
                 THEN MapPut(isolated_workers, remaining_tests[k],
                             SpawnedWorker(test_run_strategy.mutant_id))
                 ELSE isolated_workers
    /\ UNCHANGED <<mutant_meta, static_mutants, exhaustive, thread_pool, scheduled_tests,
                   test_run_strategy, results, completed_tests_count, hpc>>
    /\ UNCHANGED nonHarnessVars

\* The child process of a test runs mutest_main_static, and in it mutest_isolated_worker.
IsolatedWorkerStart ==
    /\ hpc = "running"
    /\ \E test \in DOMAIN isolated_workers :
          /\ ~isolated_workers[test].running /\ isolated_workers[test].active_mutant = 0
          /\ isolated_workers' =
                 [isolated_workers EXCEPT ![test] = IsolatedWorker(@, static_mutants)]
    /\ UNCHANGED <<mutant_meta, static_mutants, exhaustive, thread_pool, scheduled_tests,
                   test_run_strategy, remaining_tests, running_tests, results,
                   completed_tests_count, hpc>>
    /\ UNCHANGED nonHarnessVars

\* A running test completes: the test runner calls on_test_event with its result and the
\* remaining tests, and stops the run on Flow::Stop.
RunnerTestResult ==
    /\ hpc = "running"
    /\ \E test \in running_tests : \E result \in TestResult :
          LET event == OnTestEvent(test, result, results, remaining_tests,
                                   mutant_meta.mutations, exhaustive)
          IN  /\ test \in DOMAIN isolated_workers => isolated_workers[test].active_mutant # 0
              /\ completed_tests_count' = completed_tests_count + 1
              /\ results' = event.results
              /\ remaining_tests' = event.remaining_tests
              /\ running_tests' = running_tests \ {test}
              /\ isolated_workers' = MapRemove(isolated_workers, test)
              /\ hpc' = IF event.flow = "Stop" THEN "stopped" ELSE "running"
    /\ UNCHANGED <<mutant_meta, static_mutants, exhaustive, thread_pool, scheduled_tests,
                   test_run_strategy>>
    /\ UNCHANGED nonHarnessVars

\* No test remains and none is running: the test runner returns.
RunTestsReturn ==
    /\ hpc = "running" /\ remaining_tests = <<>> /\ running_tests = {}
    /\ hpc' = "finished"
    /\ UNCHANGED <<mutant_meta, static_mutants, exhaustive, thread_pool, scheduled_tests,
                   test_run_strategy, remaining_tests, running_tests, isolated_workers, results,
                   completed_tests_count>>
    /\ UNCHANGED nonHarnessVars

HarnessNext ==
    \/ RunTestsBegin
    \/ RunnerStartTest
    \/ IsolatedWorkerStart
    \/ RunnerTestResult
    \/ RunTestsReturn

SpecHarness == HarnessInit /\ [][HarnessNext]_vars

(***************************************************************************)
(* mutest_main in the Evaluate mode, and run_mutation_analysis.            *)
(***************************************************************************)
\* ERROR_EXIT_CODE.
ERROR_EXIT_CODE == 101

\* The results a test of the reference run may end with (it is run without timeout).
ReferenceResults == {"Ok", "Ignored", "Failed", "CrashedMsg"}

\* The tests of the program, in the orders sort_profiled_tests_by_exec_time may leave them.
MainTestLists == { <<"t1", "t2", "t3">>, <<"t3", "t1", "t2">> }

\* The mutants of the programs mutest_main is run in.
Programs ==
    { <<MutantMeta(1, <<MutationMeta(1, "Safe", [t \in {"t1", "t2"} |-> 1]),
                        MutationMeta(2, "Safe", [t \in {"t3"} |-> 1])>>)>>,
      <<MutantMeta(1, <<MutationMeta(1, "Safe", [t \in {"t1"} |-> 1])>>),
        MutantMeta(2, <<MutationMeta(2, "Unsafe", [t \in {"t1", "t2"} |-> 1])>>)>>,
      <<MutantMeta(1, <<MutationMeta(1, "Tainted", [t \in {"t2", "t3"} |-> 1])>>),
        MutantMeta(2, <<MutationMeta(2, "Safe", [t \in {"t1"} |-> 1]),
                        MutationMeta(3, "Safe", [t \in {"t2"} |-> 1])>>)>>,
      <<MutantMeta(1, <<MutationMeta(1, "Safe", [t \in {"t3"} |-> 1])>>)>> }

\* struct ProfiledTest.
ProfiledTest(test, result) == [test |-> test, result |-> result]

\* failed_profiled_tests of mutest_main.
FailedProfiledTests(profiled) ==
    LET failed(p) == p.result \notin {"Ignored", "Ok"}
    IN  SelectSeq(profiled, failed)

\* A mutant of the tests of mutest_main: the tests ignored in the reference run are kept.
EvaluatedTestsWithIgnored(profiled) == [k \in 1..Len(profiled) |-> profiled[k].test]

\* tests of mutest_main: the profiled tests that were not ignored.
EvaluatedTests(profiled) ==
    LET ran(p) == p.result # "Ignored"
        kept == SelectSeq(profiled, ran)
    IN  [k \in 1..Len(kept) |-> kept[k].test]

\* A mutant of the verdict of run_mutation_analysis: only Detected counts as detected.
FailedSuccessfullyOnlyDetected(all, result) == all /\ result = "Detected"

\* all_test_runs_failed_successfully after the result of a mutation: Undetected clears it.
FailedSuccessfully(all, result) == all /\ result # "Undetected"

RECURSIVE AllFailedSuccessfully(_, _, _)
\* The loop of run_mutation_analysis over the mutations of a mutant, on the flag.
AllFailedSuccessfully(all, muts, run_results) ==
    IF muts = <<>> THEN all
    ELSE AllFailedSuccessfully(FailedSuccessfully(all, run_results[Head(muts).id].result),
                               Tail(muts), run_results)

MainInit ==
    /\ mpc = "start"
    /\ static_mutants \in Programs
    /\ exhaustive \in BOOLEAN
    /\ thread_pool \in 1..MaxWorkers
    /\ profiled_tests = <<>>
    /\ mutant_index = 0
    /\ active_mutant_handle = 0
    /\ mutation_detection_matrix = EmptyMap
    /\ all_test_runs_failed_successfully = TRUE
    /\ exit_code = -1
    /\ mutant_meta = [id |-> 0, mutations |-> <<>>]
    /\ scheduled_tests = <<>>
    /\ remaining_tests = <<>>
    /\ running_tests = {}
    /\ results = EmptyMap
    /\ completed_tests_count = 0
    /\ hpc = "-"
    /\ test_run_strategy = InProcess
    /\ isolated_workers = EmptyMap
    /\ BatchIdle
    /\ ReachIdle
    /\ CollectIdle
    /\ ValidateIdle

\* mutest_main up to the mode: the reference run, and the exit if a test of it failed.
MainProfileTests ==
    /\ mpc = "start"
    /\ \E tests \in MainTestLists : \E result \in [1..Len(tests) -> ReferenceResults] :
          profiled_tests' = [k \in 1..Len(tests) |-> ProfiledTest(tests[k], result[k])]
    /\ IF FailedProfiledTests(profiled_tests') # <<>>
       THEN exit_code' = ERROR_EXIT_CODE /\ mpc' = "exited" /\ mutant_index' = mutant_index
       ELSE exit_code' = exit_code /\ mpc' = "analysis" /\ mutant_index' = 1
    /\ UNCHANGED <<active_mutant_handle, mutation_detection_matrix,
                   all_test_runs_failed_successfully>>
    /\ UNCHANGED <<batchVars, reachVars, collectVars, validateVars, harnessVars>>

\* The loop of run_mutation_analysis, up to the call of run_tests: the substitution map of
\* the mutant is made active and the tests are cloned.
MainApplyMutant ==
    /\ mpc = "analysis" /\ mutant_index <= Len(static_mutants)
    /\ active_mutant_handle' = static_mutants[mutant_index].id
    /\ RunTestsCall(static_mutants[mutant_index], static_mutants, exhaustive, thread_pool,
                    EvaluatedTests(profiled_tests))
    /\ mpc' = "run_tests"
    /\ UNCHANGED <<profiled_tests, mutant_index, mutation_detection_matrix,
                   all_test_runs_failed_successfully, exit_code>>
    /\ UNCHANGED <<batchVars, reachVars, collectVars, validateVars>>

\* run_tests has returned: the results of the mutations of the mutant are counted.
MainMutantResults ==
    /\ mpc = "run_tests" /\ hpc \in {"stopped", "finished"}
    /\ all_test_runs_failed_successfully' =
           AllFailedSuccessfully(all_test_runs_failed_successfully, mutant_meta.mutations,
                                 results)
    /\ mutation_detection_matrix' =
           [id \in DOMAIN mutation_detection_matrix \cup DOMAIN results |->
               IF id \in DOMAIN results THEN results[id].result
               ELSE mutation_detection_matrix[id]]
    /\ mutant_index' = mutant_index + 1
    /\ mpc' = "analysis"
    /\ hpc' = "-"
    /\ UNCHANGED <<profiled_tests, active_mutant_handle, exit_code>>
    /\ UNCHANGED <<mutant_meta, static_mutants, exhaustive, thread_pool, scheduled_tests,
                   test_run_strategy, remaining_tests, running_tests, isolated_workers, results,
                   completed_tests_count>>
    /\ UNCHANGED <<batchVars, reachVars, collectVars, validateVars>>

\* run_mutation_analysis has returned: mutest_main exits with ERROR_EXIT_CODE unless all test
\* runs failed successfully.
MainExit ==
    /\ mpc = "analysis" /\ mutant_index > Len(static_mutants)
    /\ exit_code' = IF ~all_test_runs_failed_successfully THEN ERROR_EXIT_CODE ELSE 0
    /\ mpc' = "exited"
    /\ UNCHANGED <<profiled_tests, mutant_index, active_mutant_handle,
                   mutation_detection_matrix, all_test_runs_failed_successfully>>
    /\ UNCHANGED <<batchVars, reachVars, collectVars, validateVars, harnessVars>>

MainNext ==
    \/ MainProfileTests
    \/ MainApplyMutant
    \/ RunTestsBegin
    \/ RunnerStartTest
    \/ IsolatedWorkerStart
    \/ RunnerTestResult
    \/ RunTestsReturn
    \/ MainMutantResults
    \/ MainExit

SpecMain == MainInit /\ [][MainNext]_vars

(***************************************************************************)
(* Properties of the conflict graph and the batching.                      *)
(***************************************************************************)
\* The batching in `mutants` is the output of a batching function or of annealing iterations.
Batched == bpc \in {"batched", "annealing", "annealed", "spinning", "panicked"}

\* The positions (mutant, mutation) of a batching.
Slots(ms) == UNION { { <<i, k>> : k \in 1..Len(ms[i].mutations) } : i \in 1..Len(ms) }

SharesTest(a, b) == \E t \in Tests : t \in DOMAIN a.target.reachable_from
                                     /\ t \in DOMAIN b.target.reachable_from

SharesAnchor(a, b) == \E i \in 1..Len(a.substs) : \E j \in 1..Len(b.substs) :
                          a.substs[i].location.node = b.substs[j].location.node

\* The policy classifies the mutation as unsafe: it was recorded inside an unsafe block or an
\* unsafe fn, or its target's unsafety is one the policy treats as unsafe.
UnsafeUnderPolicy(m) ==
    \/ m.is_in_unsafe_block
    \/ m.target.unsafety.kind # "None" /\ m.target.unsafety.source = "Unsafe"
    \/ m.target.unsafety.kind # "None" /\ unsafe_targeting = "None"
    \/ m.target.unsafety.kind # "None" /\ m.target.unsafety.source = "EnclosingUnsafe"
       /\ unsafe_targeting = "OnlyEnclosingUnsafe"

\* C1: in the output of greedy batching (any ordering, with or without epsilon) and of random
\* batching (and of dummy batching), and after every annealing iteration started from one, no
\* mutant holds two distinct mutations that conflict in the graph generated from the list.
C1_NoConflictInMutant ==
    Batched =>
        \A i \in 1..Len(mutants) : \A a, b \in 1..Len(mutants[i].mutations) :
            a # b => ~ConflictingMutations(graph, mutants[i].mutations[a].id,
                                           mutants[i].mutations[b].id)

\* C1 witness: annealing has applied a move, some mutant holds two mutations, and the graph
\* has conflicts the batching had to keep apart.
C1_Witness ==
    /\ bpc = "annealed" /\ last_change # NoChange /\ algorithm = "greedy"
    /\ \E i \in 1..Len(mutants) : Len(mutants[i].mutations) >= 2
    /\ graph.conflicts # {}

\* C2: a mutant that holds a mutation marked unsafe in the graph holds that mutation alone,
\* at every step of greedy and random batching and of annealing, whatever the cap and the
\* processing order; and annealing never moves a mutation marked unsafe.
C2_UnsafeIsolation ==
    /\ \A i \in 1..Len(mutants) :
          (\E k \in 1..Len(mutants[i].mutations) : GraphIsUnsafe(graph, mutants[i].mutations[k].id))
              => Len(mutants[i].mutations) = 1
    /\ last_change # NoChange => ~GraphIsUnsafe(graph, last_change.mutation_id)

\* C2 witness: an unsafe mutation was placed first, and the safe mutations placed after it were
\* batched together, under a cap of at least 2, in another mutant.
C2_Witness ==
    /\ bpc = "batched" /\ mutant_max_mutations_count >= 2
    /\ Len(mutants) >= 2
    /\ GraphIsUnsafe(graph, mutants[1].mutations[1].id)
    /\ \E i \in 2..Len(mutants) : Len(mutants[i].mutations) >= 2

\* C3: after dummy, greedy and random batching, and after every applied annealing move, every
\* mutation of the input list is in exactly one mutant, once, and the mutants hold nothing else.
C3_BatchingCompleteness ==
    Batched =>
        /\ Cardinality(Slots(mutants)) = Len(mutations)
        /\ \A n \in 1..Len(mutations) :
              Cardinality({s \in Slots(mutants) : mutants[s[1]].mutations[s[2]] = mutations[n]}) = 1

\* C3 witness: an applied annealing move emptied its old mutant, so there are fewer mutants
\* than the batching started with.
C3_Witness ==
    /\ bpc = "annealing" /\ last_change # NoChange
    /\ Len(mutations) = MaxMuts
    /\ Len(mutants) + 1 < next_mutant_index

\* C4 as claimed: every mutant that is not an unsafe singleton holds at most
\* mutant_max_mutations_count mutations, for every value of the cap.
C4_CapRespectedForEveryCap ==
    Batched =>
        \A i \in 1..Len(mutants) :
            \/ Len(mutants[i].mutations) = 1 /\ GraphIsUnsafe(graph, mutants[i].mutations[1].id)
            \/ Len(mutants[i].mutations) <= mutant_max_mutations_count

\* C4 amended: every mutant that is not an unsafe singleton holds at most
\* mutant_max_mutations_count mutations when the cap is at least 1, and exactly one mutation
\* when the cap is 0.
C4_CapRespected ==
    Batched =>
        \A i \in 1..Len(mutants) :
            \/ Len(mutants[i].mutations) = 1 /\ GraphIsUnsafe(graph, mutants[i].mutations[1].id)
            \/ Len(mutants[i].mutations) <=
                  (IF mutant_max_mutations_count = 0 THEN 1 ELSE mutant_max_mutations_count)

\* C4 witness: the cap is what kept a mutation out of a mutant: a full mutant of cap >= 2
\* safe mutations, and a safe mutation elsewhere that conflicts with none of them.
C4_Witness ==
    /\ bpc = "batched" /\ algorithm \in {"greedy", "random"} /\ mutant_max_mutations_count >= 2
    /\ \E i, j \in 1..Len(mutants) :
          /\ i # j
          /\ Len(mutants[i].mutations) = mutant_max_mutations_count
          /\ \A k \in 1..Len(mutants[i].mutations) :
                ~ConflictingMutations(graph, mutants[i].mutations[k].id, mutants[j].mutations[1].id)

\* C5: in the generated graph two distinct mutations of the list conflict exactly if one of
\* them is unsafe under the policy, or their targets share a reaching test, or a substitution
\* of one has the anchor of a substitution of the other; and the graph marks as unsafe
\* exactly the mutations (the last of the list too) that are unsafe under the policy.
C5_GraphMatchesRules ==
    bpc # "mutations" =>
        /\ \A i, j \in 1..Len(mutations) :
              i # j =>
                (ConflictingMutations(graph, mutations[i].id, mutations[j].id)
                    <=> \/ UnsafeUnderPolicy(mutations[i])
                        \/ UnsafeUnderPolicy(mutations[j])
                        \/ SharesTest(mutations[i], mutations[j])
                        \/ SharesAnchor(mutations[i], mutations[j]))
        /\ \A i \in 1..Len(mutations) :
              GraphIsUnsafe(graph, mutations[i].id) <=> UnsafeUnderPolicy(mutations[i])

\* C5 witness: a list whose last mutation is unsafe, with a pair of safe mutations that
\* conflicts through a shared anchor only.
C5_Witness ==
    /\ bpc = "graph" /\ Len(mutations) = MaxMuts
    /\ UnsafeUnderPolicy(mutations[Len(mutations)])
    /\ \E i, j \in 1..Len(mutations) :
          /\ SharesAnchor(mutations[i], mutations[j]) /\ ~SharesTest(mutations[i], mutations[j])
          /\ ~UnsafeUnderPolicy(mutations[i]) /\ ~UnsafeUnderPolicy(mutations[j])
          /\ ConflictingMutations(graph, mutations[i].id, mutations[j].id)

\* C6: conflicting_mutations(a, b) = conflicting_mutations(b, a) for every pair of MutIds,
\* whatever the order of the list the graph was generated from.
C6_ConflictSymmetry ==
    \A a, b \in 0..(MaxMuts + 1) :
        ConflictingMutations(graph, a, b) = ConflictingMutations(graph, b, a)

\* C6 witness: the graph stores a conflicting pair in one order only, and the lookup in the
\* other order answers the same.
C6_Witness ==
    /\ bpc = "graph"
    /\ \E a, b \in 1..MaxMuts :
          /\ <<a, b>> \in graph.conflicts /\ <<b, a>> \notin graph.conflicts
          /\ ConflictingMutations(graph, b, a)

\* C7: two distinct mutations whose targets share a reaching test conflict, also when their
\* anchors are disjoint and neither is unsafe; so two mutations of one target conflict, and
\* no mutant produced by greedy batching holds two mutations of the same target.
C7_SharedTestConflicts ==
    /\ bpc # "mutations" =>
          \A i, j \in 1..Len(mutations) :
              (i # j /\ SharesTest(mutations[i], mutations[j]))
                  => ConflictingMutations(graph, mutations[i].id, mutations[j].id)
    /\ (algorithm = "greedy" /\ bpc \in {"placing", "batched"}) =>
          \A i \in 1..Len(mutants) : \A a, b \in 1..Len(mutants[i].mutations) :
              a # b => mutants[i].mutations[a].target.def_id # mutants[i].mutations[b].target.def_id

\* C7 witness: greedy batching under a cap of at least 2 has put two safe mutations of one
\* target, with disjoint anchors, into different mutants.
C7_Witness ==
    /\ bpc = "batched" /\ algorithm = "greedy" /\ mutant_max_mutations_count >= 2
    /\ \E i, j \in 1..Len(mutants) :
          /\ i # j
          /\ mutants[i].mutations[1].target.def_id = mutants[j].mutations[1].target.def_id
          /\ ~SharesAnchor(mutants[i].mutations[1], mutants[j].mutations[1])
          /\ ~UnsafeUnderPolicy(mutants[i].mutations[1])
          /\ ~UnsafeUnderPolicy(mutants[j].mutations[1])

(***************************************************************************)
(* Properties of reachable_fns.                                            *)
(***************************************************************************)
\* The round loop goes on from a caller to its calls: not a const fn, not a local definition
\* without body, and its MIR is available.
Explored(item) ==
    /\ ~item.is_const_fn
    /\ ~(item.is_local /\ item.body = NoBody)
    /\ item.mir_available

RECURSIVE CallPathsAt(_, _)
\* The call paths of d calls out of the body of a test, each as the pair of the callee it
\* ends in and whether one of its calls out of a function is Unsafe.
CallPathsAt(test, d) ==
    IF d = 0
    THEN IF krate.tests[test].ignore THEN {}
         ELSE { <<Callee(call.def_id, call.generic_args), FALSE>> : call \in krate.tests[test].calls }
    ELSE UNION { { <<Callee(call.def_id, InstantiateGenericArgs(call.generic_args, p[1][2])),
                     p[2] \/ call.unsafety = "Unsafe">> : call \in krate.defs[p[1][1]].calls } :
                 p \in { q \in CallPathsAt(test, d - 1) : Explored(krate.defs[q[1][1]]) } }

\* The rounds, below the depth, at which a test reaches an instantiation of a definition.
RoundsReaching(test, def) ==
    { d \in 0..(depth - 1) : \E p \in CallPathsAt(test, d) : p[1][1] = def }

\* A call path with an Unsafe call reaches an instantiation of the definition below the depth.
ReachedThroughUnsafe(def) ==
    \E test \in ReachTests : \E d \in 0..(depth - 1) :
        \E p \in CallPathsAt(test, d) : p[1][1] = def /\ p[2]

\* C8: on return, for every Target and every test of its reachable_from, the recorded distance
\* is the smallest round at which the test reaches an instantiation of the Target's definition,
\* and the Target's distance is the smallest distance of its reachable_from.
C8_DistanceMinimal ==
    rpc = "returned" =>
        \A def \in DOMAIN targets :
            /\ \A test \in DOMAIN targets[def].reachable_from :
                  /\ RoundsReaching(test, def) # {}
                  /\ targets[def].reachable_from[test].distance = SetMin(RoundsReaching(test, def))
            /\ DOMAIN targets[def].reachable_from # {}
            /\ targets[def].distance =
                  SetMin({ targets[def].reachable_from[test].distance :
                             test \in DOMAIN targets[def].reachable_from })

\* C8 witness: a Target is returned that one test reaches at two rounds and another test
\* reaches first at a later round than the first.
C8_Witness ==
    /\ rpc = "returned"
    /\ \E def \in DOMAIN targets :
          /\ \E test \in DOMAIN targets[def].reachable_from :
                Cardinality(RoundsReaching(test, def)) >= 2
          /\ \E t, u \in DOMAIN targets[def].reachable_from :
                targets[def].reachable_from[t].distance < targets[def].reachable_from[u].distance

\* The unsafety of a Target never decreases in a step of reachable_fns.
UnsafetyNeverDecreases ==
    \A def \in DOMAIN targets :
        /\ def \in DOMAIN targets'
        /\ UnsafetyLe(targets[def].unsafety, targets'[def].unsafety)

\* On return the unsafety of every Target is the maximum of the unsafety of its definition and
\* of the taint of the call paths that reach it.
UnsafetyIsMaximum ==
    rpc = "returned" =>
        \A def \in DOMAIN targets :
            targets[def].unsafety =
                UnsafetyMax(CheckItemUnsafety(krate.defs[def]),
                            IF ReachedThroughUnsafe(def) THEN Tainted("Unsafe") ELSE UNone)

\* C9: while reachable_fns runs a Target's unsafety never decreases in the order
\* None < Tainted(EnclosingUnsafe) < Tainted(Unsafe) < Unsafe(EnclosingUnsafe) < Unsafe(Unsafe),
\* and on return it is the maximum of the definition's own unsafety and the taint of every
\* call path merged into it, in whatever order callees and call paths are processed.
C9_TaintMonotone == [][UnsafetyNeverDecreases]_vars /\ []UnsafetyIsMaximum

\* C9 witness: a Target is returned whose definition has no unsafety, that was tainted by an
\* Unsafe call path, and that a call path without Unsafe call reaches too.
C9_Witness ==
    /\ rpc = "returned"
    /\ \E def \in DOMAIN targets :
          /\ CheckItemUnsafety(krate.defs[def]) = UNone
          /\ targets[def].unsafety = Tainted("Unsafe")
          /\ \E test \in ReachTests : \E d \in 0..(depth - 1) :
                \E p \in CallPathsAt(test, d) : p[1][1] = def /\ ~p[2]

(***************************************************************************)
(* Properties of apply_mutation_operators.                                 *)
(***************************************************************************)
RECURSIVE LocationsIn(_, _)
\* The locations in a block, each as the pair of its node and whether an unsafe block
\* encloses it: the statements of the block, and those of its block statements. A block
\* expression is itself placed in the block that holds it, and is no location when it has a
\* single statement.
LocationsIn(block, enclosed) ==
    LET inside == enclosed \/ IsUnsafeRules(block.rules)
    IN  UNION { IF block.stmts[i].node = "expr" THEN { <<block.stmts[i].id, inside>> }
                ELSE (IF Len(block.stmts[i].stmts) = 1 THEN {}
                      ELSE { <<block.stmts[i].id, inside>> })
                     \cup LocationsIn(block.stmts[i], inside) :
                i \in 1..Len(block.stmts) }

\* The locations of a fn item at which the operators yield a mutation.
YieldingLocations(item) ==
    { l \in {<<FnNode, FALSE>>} \cup LocationsIn(item.body, FALSE) : \E o \in 1..Len(operators) : l[1] \in operators[o] }

\* The mutations recorded for a node of a definition.
RecordedAt(def, node) ==
    { i \in 1..Len(collector.mutations) :
        /\ collector.mutations[i].target.def_id = def
        /\ collector.mutations[i].substs[1].location.node = node }

\* The recorded mutations of the node are all unsafe, or all safe, under the policy.
AllUnsafeAt(def, node) ==
    \A i \in RecordedAt(def, node) : MutIsUnsafe(collector.mutations[i], unsafe_targeting)

AllSafeAt(def, node) ==
    \A i \in RecordedAt(def, node) : ~MutIsUnsafe(collector.mutations[i], unsafe_targeting)

\* C10: the mutations returned follow the UnsafeTargeting table. A location inside an unsafe
\* block or in an unsafe fn has a mutation only under All, and it is unsafe; a location outside
\* unsafe blocks in a safe fn whose body has a (user-provided) unsafe block has no mutation
\* under None, an unsafe one under OnlyEnclosing(Unsafe) and a safe one under
\* OnlyEnclosing(Normal) and All; a location outside unsafe blocks in a function whose Target
\* has unsafety None has a safe mutation under every policy.
C10_TargetingTable ==
    cpc = "returned" =>
        \A def \in DOMAIN targets : \A l \in YieldingLocations(krate.defs[def]) :
            LET item == krate.defs[def]
                recorded == RecordedAt(def, l[1]) # {}
            IN  /\ (l[2] \/ item.header_unsafe) =>
                      /\ recorded <=> unsafe_targeting = "All"
                      /\ AllUnsafeAt(def, l[1])
                /\ (~l[2] /\ ~item.header_unsafe /\ BodyUnsafetyChecker(item.body)) =>
                      /\ unsafe_targeting = "None" => ~recorded
                      /\ unsafe_targeting = "OnlyEnclosingUnsafe" =>
                            recorded /\ AllUnsafeAt(def, l[1])
                      /\ unsafe_targeting \in {"OnlyEnclosingNormal", "All"} =>
                            recorded /\ AllSafeAt(def, l[1])
                /\ (~l[2] /\ targets[def].unsafety = UNone) =>
                      recorded /\ AllSafeAt(def, l[1])

\* C10 witness: under All, a function with an unsafe block has yielded an unsafe mutation
\* inside the unsafe block and a safe one outside of it, and a function with no unsafety has
\* yielded a safe mutation.
C10_Witness ==
    /\ cpc = "returned" /\ unsafe_targeting = "All"
    /\ \E def \in DOMAIN targets :
          /\ targets[def].unsafety = UnsafeOf("EnclosingUnsafe")
          /\ \E l, k \in YieldingLocations(krate.defs[def]) :
                /\ l[2] /\ RecordedAt(def, l[1]) # {} /\ AllUnsafeAt(def, l[1])
                /\ ~k[2] /\ RecordedAt(def, k[1]) # {} /\ AllSafeAt(def, k[1])
    /\ \E def \in DOMAIN targets :
          /\ targets[def].unsafety = UNone
          /\ \E l \in YieldingLocations(krate.defs[def]) : RecordedAt(def, l[1]) # {}

\* C11: the list apply_mutation_operators builds and returns has ids 1, 2, ..., n in list
\* order, the counter continuing across Targets and across operators at the same node: the
\* k-th recorded Mutation has id k, and next_mut_index is the next unused id.
C11_MutIdsSequential ==
    cpc \in {"targets", "returned"} =>
        /\ \A k \in 1..Len(collector.mutations) : collector.mutations[k].id = k
        /\ collector.next_mut_index = Len(collector.mutations) + 1

\* C11 witness: the returned list holds mutations of two Targets, and two mutations that two
\* operators recorded at one node.
C11_Witness ==
    /\ cpc = "returned"
    /\ \E i, j \in 1..Len(collector.mutations) :
          collector.mutations[i].target.def_id # collector.mutations[j].target.def_id
    /\ \E i, j \in 1..Len(collector.mutations) :
          /\ i # j
          /\ collector.mutations[i].target.def_id = collector.mutations[j].target.def_id
          /\ collector.mutations[i].substs = collector.mutations[j].substs

(***************************************************************************)
(* Properties of the annealing.                                            *)
(***************************************************************************)
\* C12: optimize_batches_simulated_annealing returns after max_iterations move proposals on
\* every non-empty conflict-free batching, also when no mutation has a compatible other
\* mutant: random_neighbour_state is never left looping without a proposal to return.
C12_AnnealingTerminates == bpc # "spinning"

\* C13: the temperature of an annealing iteration is lower than that of the iteration before
\* it, and the temperature of the last iteration of the budget is 0.
C13_TemperatureDecreases ==
    [][(bpc = "annealing" /\ iteration' = iteration + 1) =>
          /\ iteration >= 1 => temp' < temp
          /\ iteration' = max_iterations => temp' = 0]_vars

(***************************************************************************)
(* Properties of the greedy batching.                                      *)
(***************************************************************************)
\* The mutant is below the cap and holds no mutation that conflicts with m in the graph.
Fits(m, mutant) ==
    /\ Len(mutant.mutations) < mutant_max_mutations_count
    /\ \A k \in 1..Len(mutant.mutations) :
          /\ <<m.id, mutant.mutations[k].id>> \notin graph.conflicts
          /\ <<mutant.mutations[k].id, m.id>> \notin graph.conflicts

\* C14: greedy batching without epsilon is first-fit. A step of its loop appends the mutation
\* to the lowest-indexed mutant that is below the cap and holds nothing conflicting with it;
\* if there is none, or the mutation is marked unsafe, it opens a new mutant, with the next
\* sequential id (ids start at 1).
C14_GreedyFirstFit ==
    [][(bpc = "placing" /\ algorithm = "greedy" /\ ~epsilon /\ queue # <<>>
            /\ queue' = Tail(queue)) =>
          LET m == Head(queue)
              fitting == { i \in 1..Len(mutants) : Fits(m, mutants[i]) }
          IN  IF m.id \in graph.unsafes \/ fitting = {}
              THEN mutants' = Append(mutants, [id |-> Len(mutants) + 1, mutations |-> <<m>>])
              ELSE mutants' = [mutants EXCEPT ![SetMin(fitting)].mutations = Append(@, m)]]_vars

\* C14 witness: greedy batching without epsilon has put a mutation into the first mutant
\* although the second would have taken it too.
C14_Witness ==
    /\ bpc = "batched" /\ algorithm = "greedy" /\ ~epsilon
    /\ Len(mutants) = 2 /\ Len(mutants[1].mutations) = 2 /\ Len(mutants[2].mutations) = 1
    /\ mutant_max_mutations_count >= 2
    /\ <<mutants[1].mutations[2].id, mutants[2].mutations[1].id>> \notin graph.conflicts
    /\ <<mutants[2].mutations[1].id, mutants[1].mutations[2].id>> \notin graph.conflicts
    /\ mutants[1].mutations[2].id > mutants[2].mutations[1].id

(***************************************************************************)
(* Properties of the validation.                                           *)
(***************************************************************************)
\* The pairs of positions (i < j) of a mutant whose mutations conflict in the graph.
ConflictingPairs(mutant) ==
    { q \in (1..Len(mutant.mutations)) \X (1..Len(mutant.mutations)) :
        /\ q[1] < q[2]
        /\ \/ <<mutant.mutations[q[1]].id, mutant.mutations[q[2]].id>> \in graph.conflicts
           \/ <<mutant.mutations[q[2]].id, mutant.mutations[q[1]].id>> \in graph.conflicts }

\* C15: validate_mutation_batches returns Ok if and only if no mutant holds two mutations that
\* conflict in the graph; otherwise it returns one ConflictingMutationsInBatch error for each
\* unordered conflicting pair inside a mutant, naming that mutant and the two mutations, and
\* nothing else; the batching it names is the batching it was given.
C15_BatchValidation ==
    vpc = "batches" =>
        /\ batch_validation = Ok <=> \A i \in 1..Len(mutants) : ConflictingPairs(mutants[i]) = {}
        /\ \A i \in 1..Len(mutants) : \A q \in ConflictingPairs(mutants[i]) :
              Cardinality({ e \in 1..Len(batch_validation) :
                              /\ batch_validation[e].mutant = mutants[i]
                              /\ { batch_validation[e].mutations[1], batch_validation[e].mutations[2] }
                                   = { mutants[i].mutations[q[1]], mutants[i].mutations[q[2]] } }) = 1
        /\ \A e \in 1..Len(batch_validation) :
              /\ batch_validation[e].error = "ConflictingMutationsInBatch"
              /\ \E i \in 1..Len(mutants) :
                    /\ batch_validation[e].mutant = mutants[i]
                    /\ \E q \in ConflictingPairs(mutants[i]) :
                          batch_validation[e].mutations =
                              <<mutants[i].mutations[q[1]], mutants[i].mutations[q[2]]>>

\* C15 witness: a batching of two mutants was validated, the first without conflict, the
\* second with a conflicting pair, which the one error names.
C15_Witness ==
    /\ vpc = "batches" /\ Len(mutants) = 2
    /\ Len(batch_validation) = 1
    /\ batch_validation[1].mutant = mutants[2]

\* The dummy-anchored substitutions of a mutation, in order.
DummyAnchored(m) ==
    SelectSeq(m.substs, LAMBDA s : s.location.node = DummyNodeId)

\* C16: validate_mutations returns Ok if and only if no SubstDef of any mutation is anchored at
\* the dummy node id, whatever its kind; otherwise it returns exactly one DummySubsts error
\* for each mutation that has one, listing all and only the dummy-anchored SubstDefs of that
\* mutation.
C16_MutationValidation ==
    vpc \in {"validated", "graph", "batches"} =>
        /\ mutation_validation = Ok <=>
              \A i \in 1..Len(mutations) : DummyAnchored(mutations[i]) = <<>>
        /\ \A i \in 1..Len(mutations) :
              Cardinality({ e \in 1..Len(mutation_validation) :
                              mutation_validation[e].mutation = mutations[i] })
                  = IF DummyAnchored(mutations[i]) = <<>> THEN 0 ELSE 1
        /\ \A e \in 1..Len(mutation_validation) :
              /\ mutation_validation[e].error = "DummySubsts"
              /\ \E i \in 1..Len(mutations) : mutation_validation[e].mutation = mutations[i]
              /\ mutation_validation[e].substs = DummyAnchored(mutation_validation[e].mutation)

\* C16 witness: a list was validated that has a mutation without dummy anchor, one with a
\* dummy InsertAfter, and one with two dummy anchors and a real one.
C16_Witness ==
    /\ vpc = "validated" /\ Len(mutations) = 3
    /\ Len(mutation_validation) = 2
    /\ \E e \in 1..2 :
          /\ Len(mutation_validation[e].substs) = 2
          /\ Len(mutation_validation[e].mutation.substs) = 3
    /\ \E e \in 1..2 : mutation_validation[e].substs[1].location.kind = "InsertAfter"

\* A definition the round loop passes over as skipped: a const fn, one without a local body,
\* or one nested in a test, under cfg(test) or marked mutest::skip.
Skipped(item) ==
    item.is_const_fn \/ ~item.is_local \/ item.body = NoBody \/ item.skip

RECURSIVE UnskippedCalleesAt(_, _)
\* The callees that call paths of d calls out of the body of a test end in, the paths
\* passing only through definitions that are not skipped.
UnskippedCalleesAt(test, d) ==
    IF d = 0
    THEN IF krate.tests[test].ignore THEN {}
         ELSE { Callee(call.def_id, call.generic_args) : call \in krate.tests[test].calls }
    ELSE UNION { { Callee(call.def_id, InstantiateGenericArgs(call.generic_args, c[2])) :
                     call \in krate.defs[c[1]].calls } :
                 c \in { x \in UnskippedCalleesAt(test, d - 1) : ~Skipped(krate.defs[x[1]]) } }

\* The definition is reached, below the depth, by a call path that passes through no skipped
\* definition.
ReachedUnskipped(def) ==
    \E test \in ReachTests : \E d \in 0..(depth - 1) :
        \E c \in UnskippedCalleesAt(test, d) : c[1] = def

\* C17 as stated: a skipped callee is neither recorded as a Target nor expanded, so every
\* Target returned is reached by a call path that passes through no skipped definition.
C17_SkippedNotExpanded ==
    rpc = "returned" =>
        \A def \in DOMAIN targets :
            /\ ~Skipped(krate.defs[def])
            /\ ReachedUnskipped(def)

\* C17, amended: no skipped callee is recorded as a Target; a const fn and a local definition
\* without body are not expanded, while every other callee whose MIR is available is, skipped
\* or not. The Targets returned are the unskipped definitions found in the AST that a call
\* path through such expanded definitions reaches below the depth.
C17_SkippedNotRecorded ==
    rpc = "returned" =>
        DOMAIN targets =
            { def \in DefIds :
                /\ ~Skipped(krate.defs[def]) /\ krate.defs[def].in_ast
                /\ \E test \in ReachTests : RoundsReaching(test, def) # {} }

\* C17 witness: a Target is returned that call paths reach only through a skipped definition.
C17_Witness ==
    /\ rpc = "returned"
    /\ \E def \in DOMAIN targets : ~ReachedUnskipped(def)

\* The test reaches, below the last round and by a call path without Unsafe call, a
\* function that is not an unsafe fn, whose body contains an unsafe block and that calls the
\* definition outside of any unsafe block.
CalledBesideUnsafeBlock(test, def) ==
    \E d \in 0..(depth - 2) : \E p \in CallPathsAt(test, d) :
        LET caller == krate.defs[p[1][1]]
        IN  /\ ~p[2] /\ Explored(caller)
            /\ CheckItemUnsafety(caller) = UnsafeOf("EnclosingUnsafe")
            /\ \E call \in caller.calls : call.def_id = def /\ call.unsafety = "Normal"

\* C18: call-path tainting follows the documented example. A definition called outside any
\* unsafe block by a safely-reached function whose body contains an unsafe block is recorded
\* with a call-path unsafety of at least Some(EnclosingUnsafe) for that test, and its Target is
\* classified at least Tainted(EnclosingUnsafe).
C18_EnclosingUnsafeTaint ==
    rpc = "returned" =>
        \A def \in DOMAIN targets : \A test \in DOMAIN targets[def].reachable_from :
            CalledBesideUnsafeBlock(test, def) =>
                /\ OptSourceIdx(targets[def].reachable_from[test].unsafe_call_path)
                       >= OptSourceIdx("EnclosingUnsafe")
                /\ UnsafetyLe(Tainted("EnclosingUnsafe"), targets[def].unsafety)

\* C19: every mutation recorded at a node nested, at any depth, inside an unsafe block has
\* is_in_unsafe_block set, and the flag is put back when the walk leaves the block: the
\* mutations recorded at nodes outside every unsafe block of a function that is not an
\* unsafe fn have it unset.
C19_UnsafeBlockFlag ==
    \A def \in DOMAIN targets : \A l \in LocationsIn(krate.defs[def].body, FALSE) :
        \A i \in RecordedAt(def, l[1]) :
            /\ l[2] => collector.mutations[i].is_in_unsafe_block
            /\ (~l[2] /\ ~krate.defs[def].header_unsafe) =>
                  ~collector.mutations[i].is_in_unsafe_block

\* C19 witness: the walk of fn f() { unsafe { unsafe { e1; e2 }; e3 }; e4 } has recorded a
\* flagged mutation in the inner unsafe block, a flagged one after it in the outer unsafe
\* block and an unflagged one after the outer unsafe block.
C19_Witness ==
    /\ cpc = "returned"
    /\ \E def \in DOMAIN targets :
          /\ krate.defs[def].body = BodyNested /\ ~krate.defs[def].header_unsafe
          /\ \E i \in RecordedAt(def, 1) : collector.mutations[i].is_in_unsafe_block
          /\ \E i \in RecordedAt(def, 3) : collector.mutations[i].is_in_unsafe_block
          /\ \E i \in RecordedAt(def, 4) : ~collector.mutations[i].is_in_unsafe_block

(***************************************************************************)
(* Properties of run_tests.                                                *)
(***************************************************************************)
\* The tests in the queue of the test runner.
Queued == { remaining_tests[k] : k \in 1..Len(remaining_tests) }

\* The tests whose result on_test_event has entered.
Completed == UNION { DOMAIN results[id].results_per_test : id \in DOMAIN results }

\* C20: without exhaustive, once a test reaching a mutation has failed, crashed or timed out,
\* no test reaching that mutation is left in the queue, and the run has been stopped exactly
\* when no mutation of the mutant has the verdict Undetected; with exhaustive no test is taken
\* out of the queue other than to be run, and the run is never stopped.
C20_EarlyExit ==
    hpc \in {"running", "stopped", "finished"} =>
        /\ ~exhaustive =>
              /\ \A i \in 1..Len(mutant_meta.mutations) :
                    results[mutant_meta.mutations[i].id].result # "Undetected" =>
                        Queued \cap DOMAIN mutant_meta.mutations[i].reachable_from = {}
              /\ hpc = "stopped" <=> AllDetected(results)
        /\ exhaustive =>
              /\ hpc # "stopped"
              /\ \A k \in 1..Len(scheduled_tests) :
                    scheduled_tests[k] \in Queued \cup running_tests \cup Completed

\* C20 witness: without exhaustive, the run of a mutant of two mutations has been stopped with
\* both detected, after a queued test of a detected mutation was removed without being run.
C20_Witness ==
    /\ hpc = "stopped" /\ ~exhaustive /\ Len(mutant_meta.mutations) = 2
    /\ AllDetected(results)
    /\ \E k \in 1..Len(scheduled_tests) :
          scheduled_tests[k] \notin Queued \cup running_tests \cup Completed
    /\ completed_tests_count < Len(scheduled_tests)

(***************************************************************************)
(* Properties of the random batching.                                      *)
(***************************************************************************)
\* C22: a step of random batching, or of greedy batching with an epsilon, on a mutation not
\* marked unsafe opens a new mutant only if no existing mutant is below the cap and free of
\* conflicts with it; otherwise the mutation is appended to one of those mutants.
C22_RandomOpensOnlyIfNoneFits ==
    [][(bpc = "placing" /\ (algorithm = "random" \/ (algorithm = "greedy" /\ epsilon))
            /\ queue # <<>> /\ queue' = Tail(queue) /\ Head(queue).id \notin graph.unsafes) =>
          LET m == Head(queue)
              fitting == { i \in 1..Len(mutants) : Fits(m, mutants[i]) }
          IN  IF fitting = {}
              THEN mutants' = Append(mutants, [id |-> Len(mutants) + 1, mutations |-> <<m>>])
              ELSE \E i \in fitting :
                      mutants' = [mutants EXCEPT ![i].mutations = Append(@, m)]]_vars

\* C22 witness: random batching has put a mutation into the second mutant although the first
\* would have taken it too.
C22_Witness ==
    /\ bpc = "batched" /\ algorithm = "random"
    /\ Len(mutants) = 2 /\ Len(mutants[1].mutations) = 1 /\ Len(mutants[2].mutations) = 2
    /\ mutant_max_mutations_count >= 2
    /\ <<mutants[2].mutations[2].id, mutants[1].mutations[1].id>> \notin graph.conflicts
    /\ <<mutants[1].mutations[1].id, mutants[2].mutations[2].id>> \notin graph.conflicts

(***************************************************************************)
(* Properties of the simulated annealing.                                  *)
(***************************************************************************)
\* The ids of the mutants of a batching.
MutantIds(ms) == { ms[i].id : i \in 1..Len(ms) }

\* The mutants of a batching that hold no mutation.
EmptyMutants(ms) == { i \in 1..Len(ms) : ms[i].mutations = <<>> }

\* C30: every move random_neighbour_state may propose has a next energy that is at most the
\* current energy; an iteration of the annealing never adds a mutant, removes in the same step
\* the mutant whose last mutation it moves away, and leaves no mutant empty.
C30_AnnealingNeverGrows ==
    /\ [](bpc = "annealing" =>
            /\ EmptyMutants(mutants) = {}
            /\ \A change \in RandomNeighbourStates(mutants, graph, mutant_max_mutations_count) :
                  Energy(mutants, change, TRUE) <= Energy(mutants, change, FALSE))
    /\ [][(bpc = "annealing" /\ iteration' = iteration + 1) =>
            /\ Len(mutants') <= Len(mutants)
            /\ EmptyMutants(mutants') = {}
            /\ \A i \in 1..Len(mutants) :
                  (/\ last_change' # NoChange
                   /\ last_change'.old_mutant_id = mutants[i].id
                   /\ Len(mutants[i].mutations) = 1) =>
                      /\ mutants[i].id \notin MutantIds(mutants')
                      /\ Len(mutants') = Len(mutants) - 1]_vars

\* C30 witness: an annealing iteration has moved away the only mutation of a mutant, and that
\* mutant is gone.
C30_Witness ==
    /\ bpc \in {"annealing", "annealed"} /\ last_change # NoChange
    /\ last_change.old_mutant_id \notin MutantIds(mutants)
    /\ Len(mutants) < Len(mutations)
    /\ EmptyMutants(mutants) = {}

\* C27: reachable_fns runs exactly `depth` rounds and returns for every depth >= 0, and every
\* Target and entry point association it returns has a distance below depth.
C27_DepthRounds ==
    /\ rpc # "panicked"
    /\ distance <= depth
    /\ rpc = "returned" =>
          /\ distance = depth
          /\ \A def \in DOMAIN targets :
                /\ targets[def].distance < depth
                /\ \A test \in DOMAIN targets[def].reachable_from :
                      targets[def].reachable_from[test].distance < depth

\* C29: the merged classification is conservative under every policy. A Target that some test
\* reaches through a call made in an unsafe context (unsafe_call_path = Some(Unsafe)) has an
\* unsafety that is_unsafe under every UnsafeTargeting, and every mutation of that Target is
\* marked unsafe in the conflict graph.
C29_MergedClassificationConservative ==
    \A def \in DOMAIN targets :
        (\E test \in DOMAIN targets[def].reachable_from :
            targets[def].reachable_from[test].unsafe_call_path = "Unsafe") =>
            \A p \in UnsafeTargeting :
                /\ UnsafetyIsUnsafe(targets[def].unsafety, p)
                /\ \A inUnsafe \in BOOLEAN :
                      1 \in GraphUnsafes(<<MkMut(1, targets[def], inUnsafe,
                                                 <<SubstDef("Replace", 1)>>)>>, p)

\* The mutation of the mutant run_tests evaluates that has the id.
MutationOfId(id) ==
    mutant_meta.mutations[SetMin({ i \in 1..Len(mutant_meta.mutations) :
                                     mutant_meta.mutations[i].id = id })]

\* C23: within run_tests the verdict Detected is absorbing, whatever arrives after it, and the
\* result of a mutation is Undetected exactly if every completed test entered for it passed
\* or was ignored.
C23_DetectedAbsorbing ==
    /\ [][hpc' # "start" =>
            \A id \in DOMAIN results :
                results[id].result = "Detected" =>
                    id \in DOMAIN results' /\ results'[id].result = "Detected"]_vars
    /\ [](\A id \in DOMAIN results :
             results[id].result = "Undetected" <=>
                 \A t \in DOMAIN results[id].results_per_test :
                     results[id].results_per_test[t] = "Undetected")

\* C23 witness: a mutation is Detected after three of its tests completed, one passing, one
\* failing and one crashing.
C23_Witness ==
    \E id \in DOMAIN results :
        /\ results[id].result = "Detected"
        /\ { results[id].results_per_test[t] : t \in DOMAIN results[id].results_per_test }
               = {"Undetected", "Detected", "Crashed"}

\* C24: every test run_tests runs reaches exactly one mutation of the mutant, and its result
\* is entered for that mutation and for no other (the lookup of the mutation of a completed
\* test finds one).
C24_TestReachesOneMutation ==
    hpc \in {"running", "stopped", "finished"} =>
        /\ \A k \in 1..Len(scheduled_tests) :
              Cardinality(ReachedMutations(scheduled_tests[k], mutant_meta.mutations)) = 1
        /\ \A t \in running_tests : ReachedMutations(t, mutant_meta.mutations) # {}
        /\ \A id \in DOMAIN results : \A t \in DOMAIN results[id].results_per_test :
              /\ t \in DOMAIN MutationOfId(id).reachable_from
              /\ \A other \in DOMAIN results \ {id} :
                    t \notin DOMAIN results[other].results_per_test

\* C24 witness: the run of a mutant of two mutations has finished with a test result entered
\* for each of them.
C24_Witness ==
    /\ hpc = "finished" /\ Len(mutant_meta.mutations) = 2
    /\ \A id \in DOMAIN results : results[id].results_per_test # EmptyMap

\* C25: run_tests chooses the isolated strategy exactly for a mutant with a mutation whose
\* safety is Tainted or Unsafe; a child process is spawned only under that strategy, for each
\* test it runs, and the substitution map the child makes active before it runs its test is
\* that of the mutant the parent evaluates.
C25_IsolationOfUnsafeMutants ==
    hpc \in {"running", "stopped", "finished"} =>
        /\ test_run_strategy.kind = "InIsolatedChildProcess" <=>
              \E i \in 1..Len(mutant_meta.mutations) :
                  mutant_meta.mutations[i].safety \in {"Tainted", "Unsafe"}
        /\ test_run_strategy.kind = "InProcess" => isolated_workers = EmptyMap
        /\ test_run_strategy.kind = "InIsolatedChildProcess" =>
              /\ DOMAIN isolated_workers = running_tests
              /\ \A t \in DOMAIN isolated_workers :
                    /\ isolated_workers[t].active_mutant \in {0, mutant_meta.id}
                    /\ isolated_workers[t].running =>
                          isolated_workers[t].active_mutant = mutant_meta.id

\* C25 witness: a mutant whose only mutation is tainted is run isolated, and a child process
\* runs a test under the substitution map of that mutant, which is not the first mutant of
\* the program.
C25_Witness ==
    /\ hpc = "running" /\ test_run_strategy.kind = "InIsolatedChildProcess"
    /\ \A i \in 1..Len(mutant_meta.mutations) : mutant_meta.mutations[i].safety = "Tainted"
    /\ static_mutants[1].id # mutant_meta.id
    /\ \E t \in DOMAIN isolated_workers :
          isolated_workers[t].running /\ isolated_workers[t].active_mutant = mutant_meta.id

\* The rank of a test in the order maximize_mutation_parallelism is to produce: how many tests
\* before it in the list reach the mutation it reaches, then the position of that mutation.
ParallelRank(tests, k, muts) ==
    LET i == SetMin(ReachedMutations(tests[k], muts))
    IN  <<Cardinality({ j \in 1..(k - 1) : tests[j] \in DOMAIN muts[i].reachable_from }), i>>

\* C28: on tests that all reach a mutation of the mutant, maximize_mutation_parallelism returns
\* a permutation of them that keeps the order of the tests reaching the same mutation and
\* takes the mutations in turn: a test comes before another exactly if fewer tests of its own
\* mutation precede it or, with as many, its mutation comes first.
C28_ParallelismPermutation ==
    [][(hpc = "start" /\ hpc' = "running") =>
          LET muts == mutant_meta.mutations
              input == RetainReaching(scheduled_tests, muts)
              output == scheduled_tests'
              rank(t) == ParallelRank(input, CHOOSE k \in 1..Len(input) : input[k] = t, muts)
          IN  /\ Len(output) = Len(input)
              /\ { output[k] : k \in 1..Len(output) } = { input[k] : k \in 1..Len(input) }
              /\ \A a, b \in 1..Len(output) :
                    a < b =>
                        \/ rank(output[a])[1] < rank(output[b])[1]
                        \/ /\ rank(output[a])[1] = rank(output[b])[1]
                           /\ rank(output[a])[2] < rank(output[b])[2]]_vars

\* C28 witness: three tests were given in an order that maximize_mutation_parallelism changed,
\* the second of the two tests of the first mutation having been moved behind the test of the
\* second mutation.
C28_Witness ==
    /\ hpc = "running" /\ Len(mutant_meta.mutations) = 2 /\ Len(scheduled_tests) = 3
    /\ scheduled_tests \notin TestLists
    /\ {scheduled_tests[1], scheduled_tests[3]} \subseteq DOMAIN mutant_meta.mutations[1].reachable_from
    /\ scheduled_tests[2] \in DOMAIN mutant_meta.mutations[2].reachable_from

(***************************************************************************)
(* Properties of mutest_main.                                              *)
(***************************************************************************)
\* The reference run has passed.
ReferencePassed ==
    profiled_tests # <<>>
    /\ \A k \in 1..Len(profiled_tests) : profiled_tests[k].result \in {"Ok", "Ignored"}

\* C21: when the reference run passes, the Evaluate mode exits with the error code 101 exactly
\* if a mutation of some mutant ends with the verdict Undetected, and with 0 otherwise;
\* mutations ending TimedOut or Crashed do not make it fail.
C21_ExitCode ==
    (mpc = "exited" /\ ReferencePassed) =>
        /\ DOMAIN mutation_detection_matrix =
               UNION { { static_mutants[i].mutations[k].id :
                           k \in 1..Len(static_mutants[i].mutations) } :
                       i \in 1..Len(static_mutants) }
        /\ exit_code = 101 <=>
               \E id \in DOMAIN mutation_detection_matrix :
                   mutation_detection_matrix[id] = "Undetected"
        /\ exit_code \in {0, 101}

\* C21 witness: the process has exited with 0 although a mutation timed out and another
\* crashed.
C21_Witness ==
    /\ mpc = "exited" /\ ReferencePassed /\ exit_code = 0
    /\ \E id, other \in DOMAIN mutation_detection_matrix :
          /\ mutation_detection_matrix[id] = "TimedOut"
          /\ mutation_detection_matrix[other] = "Crashed"

\* C26: if a test of the reference run ends with a result other than Ok or Ignored, the
\* process has exited with 101 with no substitution map made active and no test run of a
\* mutant started; a test ignored in the reference run is never run against a mutant.
C26_ReferenceRunGuards ==
    /\ (\E k \in 1..Len(profiled_tests) : profiled_tests[k].result \notin {"Ok", "Ignored"}) =>
          /\ mpc = "exited" /\ exit_code = 101
          /\ active_mutant_handle = 0
          /\ hpc = "-" /\ running_tests = {} /\ results = EmptyMap
          /\ mutation_detection_matrix = EmptyMap
    /\ \A k \in 1..Len(profiled_tests) :
          profiled_tests[k].result = "Ignored" =>
              profiled_tests[k].test \notin Queued \cup running_tests \cup Completed

\* C26 witness: a mutant has been evaluated on the tests that passed the reference run, while
\* a test that reaches its mutation was ignored in the reference run.
C26_Witness ==
    /\ mpc = "run_tests" /\ hpc = "finished" /\ completed_tests_count >= 1
    /\ \E k \in 1..Len(profiled_tests) :
          /\ profiled_tests[k].result = "Ignored"
          /\ ReachedMutations(profiled_tests[k].test, mutant_meta.mutations) # {}

====
